---- MODULE Spec2Model ----
(***************************************************************************)
(* Model of the chat client's conversation store, turn controller and      *)
(* stream orchestrator (web/components/AppShell.tsx), and of the           *)
(* forwarding routes of the server (app/api/chat, app/api/models) with the *)
(* server registry (lib/vllmServers).                                      *)
(*                                                                         *)
(* Text is a sequence of characters, " " being the whitespace character.   *)
(* The response body is a sequence of units: the record prefix "data:",    *)
(* the line feed "LF", whitespace " ", the sentinel "[DONE]", and one unit *)
(* per JSON text or non-JSON text a line can carry.  A chunk is a piece of *)
(* that sequence, cut anywhere between two units.                          *)
(*                                                                         *)
(* One action is one run of a handler up to its first suspension point     *)
(* (the component has re-rendered before the next action, so a handler     *)
(* starts from the committed state), or one continuation of a streamChat   *)
(* cycle from one await to the next.  Inside a handler the values captured *)
(* by its closure stay those of the last render, while functional state    *)
(* updates are applied in order to the newest state.                       *)
(***************************************************************************)
EXTENDS Integers, Sequences, FiniteSets, TLC

VARIABLES
    conversations,  \* useState<Conversation[]>
    activeId,       \* useState<string | null>
    isStreaming,    \* useState(false): the busy flag
    abortRef,       \* useRef<AbortController | null>: "null" or the cycle owning the controller
    editingMsgId,   \* useState<string | null>
    cycles,         \* the streamChat invocations suspended at an await
    nextId,         \* the next message token uid() yields
    nextConv,       \* the next conversation token uid() yields
    last,           \* the handler or continuation that ran last (history)
    edits,          \* ids of the messages an edit was saved on (history)
    exported,       \* the documents exportAll has downloaded, in order, each with the
                    \* conversations it was written from (history)
    importing,      \* the onImportFile invocations suspended at file.text()
    picked,         \* the number of files picked for import so far (history)
    env,            \* process.env of the server, as far as the routes read it
    served          \* the request a route handled last, with what it did (history)

net == <<env, served>>

io == <<exported, importing, picked, net>>

vars == <<conversations, activeId, isStreaming, abortRef, editingMsgId, cycles, nextId,
          nextConv, last, edits, exported, importing, picked, env, served>>

-----------------------------------------------------------------------------
(* Bounds *)

MaxChunks == 2     \* chunks a response body of Bodies arrives in, at most
MaxIds == 5        \* uid() calls in one behaviour
MaxImports == 1    \* files picked for import in one behaviour
MaxExports == 1    \* documents exported in one behaviour

-----------------------------------------------------------------------------
(* Text helpers *)

Null == "null"
Undefined == "undefined"

IsSpace(ch) == ch \in {" ", "LF"}

RECURSIVE TrimEnd(_)
TrimEnd(s) ==
    IF s # <<>> /\ IsSpace(s[Len(s)]) THEN TrimEnd(SubSeq(s, 1, Len(s) - 1)) ELSE s

RECURSIVE TrimStart(_)
TrimStart(s) ==
    IF s # <<>> /\ IsSpace(s[1]) THEN TrimStart(Tail(s)) ELSE s

Trim(s) == TrimStart(TrimEnd(s))

RECURSIVE CollapseSpaces(_)
CollapseSpaces(s) ==
    IF s = <<>> THEN <<>>
    ELSE IF IsSpace(s[1])
         THEN <<" ">> \o CollapseSpaces(TrimStart(s))
         ELSE <<s[1]>> \o CollapseSpaces(Tail(s))

TitleCut == 28

NewChatTitle == <<"N", "e", "w", " ", "c", "h", "a", "t">>
Ellipsis == "..."

FirstNonBlankUser(msgs) ==
    LET hits == {k \in DOMAIN msgs : msgs[k].role = "user" /\ Len(Trim(msgs[k].content)) > 0}
    IN  IF hits = {} THEN 0 ELSE CHOOSE k \in hits : \A j \in hits : k <= j

\* faulty variant of titleFromFirstUser: the cut title gets no ellipsis
titleFromFirstUserNoEllipsis(msgs) ==
    LET k == FirstNonBlankUser(msgs)
    IN  IF k = 0 THEN NewChatTitle
        ELSE LET t == CollapseSpaces(Trim(msgs[k].content))
             IN  IF Len(t) > TitleCut THEN SubSeq(t, 1, TitleCut) ELSE t

titleFromFirstUser(msgs) ==
    LET k == FirstNonBlankUser(msgs)
    IN  IF k = 0 THEN NewChatTitle
        ELSE LET t == CollapseSpaces(Trim(msgs[k].content))
             IN  IF Len(t) > TitleCut THEN SubSeq(t, 1, TitleCut) \o <<Ellipsis>> ELSE t

\* faulty variant of estimateTokens: the quotient is rounded down
estimateTokensFloor(text) ==
    LET c == Len(text) \div 4
    IN  IF c > 1 THEN c ELSE 1

estimateTokens(text) ==
    LET c == (Len(text) + 3) \div 4
    IN  IF c > 1 THEN c ELSE 1

\* uid() yields a token no earlier call yielded; message tokens are numbered
\* from 1 up and conversation tokens from 0 down.
uid(n) == ToString(n)

-----------------------------------------------------------------------------
(* Messages and conversations *)

NoMeta ==
    [model |-> Undefined, serverId |-> Undefined, latencyMs |-> Undefined,
     estTokens |-> <<>>, promptTokens |-> <<>>, completionTokens |-> <<>>,
     totalTokens |-> <<>>]

OrUndefined(s) == IF Trim(s) = <<>> THEN Undefined ELSE Trim(s)

UserMessage(id, text, hasText, hasImage) ==
    [id |-> id, role |-> "user", content |-> IF hasText THEN text ELSE <<>>,
     image |-> hasImage, status |-> "done", meta |-> NoMeta, error |-> Undefined]

AssistantPlaceholder(id, modelId, serverId) ==
    [id |-> id, role |-> "assistant", content |-> <<>>, image |-> FALSE,
     status |-> "streaming",
     meta |-> [NoMeta EXCEPT !.model = OrUndefined(modelId), !.serverId = OrUndefined(serverId)],
     error |-> Undefined]

DefaultSystemPrompt == <<"S">>
DefaultMaxTokens == 512

\* A number (the type of maxTokens) is held in fixed point, as a count of
\* 1/Scale-ths, so that the non-integral values a number can take are there.
Scale == 2
Num(n) == n * Scale
IsInteger(x) == x % Scale = 0

newConversation(id) ==
    [id |-> id, title |-> NewChatTitle, systemPrompt |-> DefaultSystemPrompt,
     maxTokens |-> Num(DefaultMaxTokens), modelId |-> <<>>, serverId |-> <<>>,
     messages |-> <<>>]

FindConv(convs, id) ==
    LET hits == {k \in DOMAIN convs : convs[k].id = id}
    IN  IF hits = {} THEN 0 ELSE CHOOSE k \in hits : \A j \in hits : k <= j

Conversations(convs) == {convs[k] : k \in DOMAIN convs}

\* faulty variant of updateConv: filters where it should map
updateConvKeepsTarget(convs, id, updater) ==
    LET F[k \in 0..Len(convs)] ==
            IF k = 0 THEN <<>>
            ELSE IF convs[k].id = id THEN Append(F[k - 1], updater[convs[k]]) ELSE F[k - 1]
    IN  F[Len(convs)]

\* updater is a function on the conversations of convs
updateConv(convs, id, updater) ==
    [k \in DOMAIN convs |-> IF convs[k].id = id THEN updater[convs[k]] ELSE convs[k]]

\* prev.filter((c) => c.id !== id)
filterOut(convs, id) ==
    LET F[k \in 0..Len(convs)] ==
            IF k = 0 THEN <<>>
            ELSE IF convs[k].id # id THEN Append(F[k - 1], convs[k]) ELSE F[k - 1]
    IN  F[Len(convs)]

findIndex(msgs, id, role) ==
    LET hits == {k \in DOMAIN msgs : msgs[k].id = id /\ msgs[k].role = role}
    IN  IF hits = {} THEN 0 ELSE CHOOSE k \in hits : \A j \in hits : k <= j

ActiveConv ==
    IF activeId = Null THEN 0 ELSE FindConv(conversations, activeId)

-----------------------------------------------------------------------------
(* Frame decoding and delta extraction: the body of the read loop *)

LF == "LF"
DataPrefix == "data:"
DoneSentinel == "[DONE]"

\* JSON.parse of a payload: the texts that parse, and the object each yields.
\* delta is choices[0].delta.content when it is a string, usage the usage object.
JsonTexts == {"{a}", "{b}", "{w}", "{e}", "{u1}", "{u2}", "{au}"}

JsonObject(unit) ==
    CASE unit = "{a}"  -> [delta |-> <<"a">>, usage |-> <<>>]
      [] unit = "{b}"  -> [delta |-> <<"b">>, usage |-> <<>>]
      [] unit = "{w}"  -> [delta |-> <<"w", "o", "r", "d">>, usage |-> <<>>]
      [] unit = "{e}"  -> [delta |-> <<>>, usage |-> <<>>]
      [] unit = "{u1}" -> [delta |-> <<>>, usage |-> <<"u1">>]
      [] unit = "{u2}" -> [delta |-> <<>>, usage |-> <<"u2">>]
      [] unit = "{au}" -> [delta |-> <<"a">>, usage |-> <<"u1">>]

JsonParses(data) == Len(data) = 1 /\ data[1] \in JsonTexts

indexOfLF(buffer) ==
    LET hits == {k \in DOMAIN buffer : buffer[k] = LF}
    IN  IF hits = {} THEN 0 ELSE CHOOSE k \in hits : \A j \in hits : k <= j

startsWithData(trimmed) == trimmed # <<>> /\ trimmed[1] = DataPrefix

\* faulty variant of DecodeLine: a payload that does not parse leaves the loop
DecodeLineJunkEnds(line) ==
    LET trimmed == Trim(TrimEnd(line))
        data == IF startsWithData(trimmed) THEN Trim(Tail(trimmed)) ELSE <<>>
    IN  IF ~startsWithData(trimmed) THEN [kind |-> "skip"]
        ELSE IF data = <<>> THEN [kind |-> "skip"]
        ELSE IF data = <<DoneSentinel>> \/ ~JsonParses(data) THEN [kind |-> "done"]
        ELSE [kind |-> "record", obj |-> JsonObject(data[1])]

\* One line of the inner loop: "skip" (continue), "done" (break), or "record".
DecodeLine(line) ==
    LET trimmed == Trim(TrimEnd(line))
        data == IF startsWithData(trimmed) THEN Trim(Tail(trimmed)) ELSE <<>>
    IN  IF ~startsWithData(trimmed) THEN [kind |-> "skip"]
        ELSE IF data = <<>> THEN [kind |-> "skip"]
        ELSE IF data = <<DoneSentinel>> THEN [kind |-> "done"]
        ELSE IF ~JsonParses(data) THEN [kind |-> "skip"]
        ELSE [kind |-> "record", obj |-> JsonObject(data[1])]

\* faulty variant of DrainBuffer: usage once captured is kept
RECURSIVE DrainBufferFirstUsage(_)
DrainBufferFirstUsage(st) ==
    LET idx == indexOfLF(st.buffer)
    IN  IF idx = 0 THEN st
        ELSE LET line == SubSeq(st.buffer, 1, idx - 1)
                 rest == SubSeq(st.buffer, idx + 1, Len(st.buffer))
                 d == DecodeLine(line)
             IN  IF d.kind = "done" THEN [st EXCEPT !.buffer = rest, !.done = TRUE]
                 ELSE IF d.kind = "skip" THEN DrainBufferFirstUsage([st EXCEPT !.buffer = rest])
                 ELSE DrainBufferFirstUsage(
                        [buffer |-> rest,
                         deltas |-> IF Len(d.obj.delta) > 0
                                    THEN Append(st.deltas, d.obj.delta) ELSE st.deltas,
                         usage |-> IF d.obj.usage # <<>> /\ st.usage = <<>>
                                   THEN d.obj.usage ELSE st.usage,
                         records |-> Append(st.records, d.obj),
                         done |-> st.done])

\* The inner while loop over the buffered lines.  st = [buffer, deltas, usage,
\* records, done]: deltas are the fragments handed to updateConv, in order; usage
\* is finalUsage; records (the objects JSON.parse returned, in order) and done
\* (the loop was left by the [DONE] break) record what the loop did.
RECURSIVE DrainBuffer(_)
DrainBuffer(st) ==
    LET idx == indexOfLF(st.buffer)
    IN  IF idx = 0 THEN st
        ELSE LET line == SubSeq(st.buffer, 1, idx - 1)
                 rest == SubSeq(st.buffer, idx + 1, Len(st.buffer))
                 d == DecodeLine(line)
             IN  IF d.kind = "done" THEN [st EXCEPT !.buffer = rest, !.done = TRUE]
                 ELSE IF d.kind = "skip" THEN DrainBuffer([st EXCEPT !.buffer = rest])
                 ELSE DrainBuffer(
                        [buffer |-> rest,
                         deltas |-> IF Len(d.obj.delta) > 0
                                    THEN Append(st.deltas, d.obj.delta) ELSE st.deltas,
                         usage |-> IF d.obj.usage # <<>> THEN d.obj.usage ELSE st.usage,
                         records |-> Append(st.records, d.obj),
                         done |-> st.done])

\* buffer += decoder.decode(value, {stream: true}), then the inner loop.
PumpChunk(buffer, finalUsage, chunk) ==
    DrainBuffer([buffer |-> buffer \o chunk, deltas |-> <<>>, usage |-> finalUsage,
                 records |-> <<>>, done |-> FALSE])

-----------------------------------------------------------------------------
(* Store updaters: the functions handed to updateConv *)

Min(a, b) == IF a < b THEN a ELSE b

\* c.messages.slice(0, n)
slice(msgs, n) == SubSeq(msgs, 1, Min(n, Len(msgs)))

\* faulty variant of AppendTurn: the placeholder is left for a later update
AppendTurnUserOnly(conv, userMsg, assistantMsg) ==
    [conv EXCEPT !.messages = conv.messages \o <<userMsg>>]

\* appendUserAndRun's updater
AppendTurn(conv, userMsg, assistantMsg) ==
    LET next == [conv EXCEPT !.messages = conv.messages \o <<userMsg, assistantMsg>>]
    IN  IF next.title = NewChatTitle
        THEN [next EXCEPT !.title = titleFromFirstUser(next.messages)]
        ELSE next

\* faulty variants of ReplaceFrom: no truncation; one message too many kept
ReplaceFromAppendOnly(c, userIndex, assistantMsg) ==
    [c EXCEPT !.messages = c.messages \o <<assistantMsg>>]

ReplaceFromOffByOne(c, userIndex, assistantMsg) ==
    [c EXCEPT !.messages = slice(c.messages, userIndex + 1) \o <<assistantMsg>>]

\* runFromUserMessage's updater; userIndex counts from 1
ReplaceFrom(c, userIndex, assistantMsg) ==
    [c EXCEPT !.messages = slice(c.messages, userIndex) \o <<assistantMsg>>]

\* faulty variant of EditKeep: the cut falls before the edited message
EditKeepOffByOne(c, idx, msgId, newText) ==
    LET cut == slice(c.messages, idx - 1)
    IN  [c EXCEPT !.messages =
            [k \in DOMAIN cut |->
                IF cut[k].id = msgId THEN [cut[k] EXCEPT !.content = newText] ELSE cut[k]]]

\* saveEdit's updater; idx counts from 1
EditKeep(c, idx, msgId, newText) ==
    LET cut == slice(c.messages, idx)
        kept == [k \in DOMAIN cut |->
                    IF cut[k].id = msgId THEN [cut[k] EXCEPT !.content = newText] ELSE cut[k]]
        next == [c EXCEPT !.messages = kept]
    IN  IF next.title = NewChatTitle
        THEN [next EXCEPT !.title = titleFromFirstUser(next.messages)]
        ELSE next

\* faulty variant of ApplyDelta: the id test is missing
ApplyDeltaToAll(c, assistantId, delta) ==
    [c EXCEPT !.messages =
        [k \in DOMAIN c.messages |->
            IF c.messages[k].role = "assistant"
            THEN [c.messages[k] EXCEPT !.content = @ \o delta, !.status = "streaming"]
            ELSE c.messages[k]]]

\* faulty variant of ApplyDelta: the fragment goes in front
ApplyDeltaPrepends(c, assistantId, delta) ==
    [c EXCEPT !.messages =
        [k \in DOMAIN c.messages |->
            IF c.messages[k].id = assistantId
            THEN [c.messages[k] EXCEPT !.content = delta \o @, !.status = "streaming"]
            ELSE c.messages[k]]]

\* the delta updater of the read loop
ApplyDelta(c, assistantId, delta) ==
    [c EXCEPT !.messages =
        [k \in DOMAIN c.messages |->
            IF c.messages[k].id = assistantId
            THEN [c.messages[k] EXCEPT !.content = @ \o delta, !.status = "streaming"]
            ELSE c.messages[k]]]

RECURSIVE ApplyDeltas(_, _, _)
ApplyDeltas(c, assistantId, deltas) ==
    IF deltas = <<>> THEN c
    ELSE ApplyDeltas(ApplyDelta(c, assistantId, Head(deltas)), assistantId, Tail(deltas))

FinalMeta(m, modelId, serverId) ==
    [m.meta EXCEPT
        !.latencyMs = "t1 - t0",
        !.estTokens = <<estimateTokens(m.content)>>,
        !.model = IF m.meta.model # Undefined THEN m.meta.model ELSE OrUndefined(modelId),
        !.serverId = IF m.meta.serverId # Undefined THEN m.meta.serverId ELSE OrUndefined(serverId)]

\* the updater after the read loop
FinalizeDone(c, assistantId, finalUsage, modelId, serverId) ==
    LET msgs == [k \in DOMAIN c.messages |->
                    LET m == c.messages[k]
                        meta == FinalMeta(m, modelId, serverId)
                    IN  IF m.id # assistantId THEN m
                        ELSE [m EXCEPT !.status = "done",
                                       !.meta = IF finalUsage # <<>>
                                                THEN [meta EXCEPT !.promptTokens = finalUsage,
                                                                  !.completionTokens = finalUsage,
                                                                  !.totalTokens = finalUsage]
                                                ELSE meta]]
    IN  [c EXCEPT !.messages = msgs,
                  !.title = IF Len(c.messages) = 0 THEN titleFromFirstUser(msgs) ELSE c.title]

\* e?.name === "AbortError"
IsAbortError(e) == e.name = "AbortError"

\* faulty variants of FinalizeCatch: the partial content is dropped on failure; a
\* stopped message is returned as it was
FinalizeCatchDropsContent(c, assistantId, e, modelId, serverId) ==
    [c EXCEPT !.messages =
        [k \in DOMAIN c.messages |->
            LET m == c.messages[k]
                meta == FinalMeta(m, modelId, serverId)
            IN  IF m.id # assistantId THEN m
                ELSE IF IsAbortError(e) THEN [m EXCEPT !.status = "stopped", !.meta = meta]
                ELSE [m EXCEPT !.status = "error", !.error = e.message, !.meta = meta,
                               !.content = <<>>]]]

FinalizeCatchSkipsStopped(c, assistantId, e, modelId, serverId) ==
    [c EXCEPT !.messages =
        [k \in DOMAIN c.messages |->
            LET m == c.messages[k]
                meta == FinalMeta(m, modelId, serverId)
            IN  IF m.id # assistantId \/ IsAbortError(e) THEN m
                ELSE [m EXCEPT !.status = "error", !.error = e.message, !.meta = meta]]]

\* the updater of the catch block
FinalizeCatch(c, assistantId, e, modelId, serverId) ==
    [c EXCEPT !.messages =
        [k \in DOMAIN c.messages |->
            LET m == c.messages[k]
                meta == FinalMeta(m, modelId, serverId)
            IN  IF m.id # assistantId THEN m
                ELSE IF IsAbortError(e) THEN [m EXCEPT !.status = "stopped", !.meta = meta]
                ELSE [m EXCEPT !.status = "error", !.error = e.message, !.meta = meta]]]

-----------------------------------------------------------------------------
(* Model-facing message list *)

VisionModelIds == {<<"v", "l">>, <<"l", "f", "m", "2", "-", "v", "l">>}
ImageTokenModelIds == {<<"l", "f", "m", "2", "-", "v", "l">>}

isVisionModelId(id) == id \in VisionModelIds
requiresImageToken(modelId) == modelId \in ImageTokenModelIds
resolveVisionSupport(modelId) == isVisionModelId(Trim(modelId))

ImageToken == "<image>"

ModelContent(c, m, supportsVision) ==
    IF supportsVision /\ m.role = "user" /\ m.image
    THEN LET text == IF requiresImageToken(c.modelId) /\ ~(\E k \in DOMAIN m.content : m.content[k] = ImageToken)
                     THEN (IF Len(Trim(m.content)) > 0 THEN <<ImageToken, LF>> \o m.content
                           ELSE <<ImageToken>>)
                     ELSE m.content
         IN  [role |-> m.role, content |-> IF Len(Trim(text)) > 0 THEN text ELSE <<>>, image |-> TRUE]
    ELSE [role |-> m.role, content |-> m.content, image |-> FALSE]

\* faulty variant of buildMessagesForModel: the loop does not stop at uptoMsgId
buildMessagesForModelWholeLog(c, supportsVision, uptoMsgId) ==
    LET sys == IF Len(Trim(c.systemPrompt)) > 0
               THEN <<[role |-> "system", content |-> c.systemPrompt, image |-> FALSE]>>
               ELSE <<>>
        F[k \in 0..Len(c.messages)] ==
            IF k = 0 THEN sys
            ELSE IF c.messages[k].role = "system" THEN F[k - 1]
            ELSE Append(F[k - 1], ModelContent(c, c.messages[k], supportsVision))
    IN  F[Len(c.messages)]

\* uptoMsgId = Undefined when the argument is omitted
buildMessagesForModel(c, supportsVision, uptoMsgId) ==
    LET sys == IF Len(Trim(c.systemPrompt)) > 0
               THEN <<[role |-> "system", content |-> c.systemPrompt, image |-> FALSE]>>
               ELSE <<>>
        stops == {k \in DOMAIN c.messages :
                     c.messages[k].role # "system" /\ c.messages[k].id = uptoMsgId}
        cut == IF uptoMsgId = Undefined \/ stops = {} THEN Len(c.messages)
               ELSE CHOOSE k \in stops : \A j \in stops : k <= j
        F[k \in 0..cut] ==
            IF k = 0 THEN sys
            ELSE IF c.messages[k].role = "system" THEN F[k - 1]
            ELSE Append(F[k - 1], ModelContent(c, c.messages[k], supportsVision))
    IN  F[cut]

-----------------------------------------------------------------------------
(* Inputs *)

\* what the user may have typed into the composer when Send runs
Inputs == {<<" ">>, <<"h", " ">>}

\* what the user may have typed into the edit box when Save runs
Drafts == {<<"e", " ">>}

\* a pending image survives only while the selected model accepts images
PendingImages(modelId) == IF isVisionModelId(modelId) THEN BOOLEAN ELSE {FALSE}

\* the response bodies the server may send, each as the chunks it arrives in;
\* the transport may end or fail after any of them
Streams ==
    { << <<DataPrefix, "{a}", LF, DataPrefix, " ", "{b}">>,
         <<LF, LF, DataPrefix, "{u1}", LF, DataPrefix, DoneSentinel, LF>> >> }

\* response bodies for the read loop: the spec's own example (two fragments,
\* usage, [DONE]); lines that are blank, lack the prefix or do not parse; records
\* after [DONE]; usage carried twice; an unterminated last line; no fragment at
\* all; four characters in one fragment; five characters in two
Bodies ==
    { <<DataPrefix, "{a}", LF, DataPrefix, " ", "{b}", LF, LF, DataPrefix, "{u1}", LF,
        DataPrefix, DoneSentinel, LF>>,
      <<"junk", LF, DataPrefix, "junk", LF, DataPrefix, "{a}", LF, " ", LF, "{b}", LF,
        DataPrefix, "{e}", LF, DataPrefix, LF, DataPrefix, "{b}", LF>>,
      <<DataPrefix, "{a}", LF, DataPrefix, DoneSentinel, LF, DataPrefix, "{b}", LF,
        DataPrefix, "{u2}", LF>>,
      <<DataPrefix, "{u1}", LF, DataPrefix, "{au}", LF, DataPrefix, "{u2}", LF,
        DataPrefix, "{b}", LF>>,
      <<DataPrefix, "{a}", LF, DataPrefix, "{u1}", LF, DataPrefix, "{b}">>,
      <<DataPrefix, "{e}", LF>>,
      <<DataPrefix, "{w}", LF>>,
      <<DataPrefix, "{w}", LF, DataPrefix, "{a}", LF>> }

\* the ways the transport may deliver bytes in at most n non-empty chunks
RECURSIVE Splits(_, _)
Splits(bytes, n) ==
    IF bytes = <<>> THEN {<<>>}
    ELSE IF n <= 1 THEN {<<bytes>>}
    ELSE {<<bytes>>} \cup
         UNION {{<<SubSeq(bytes, 1, k)>> \o rest :
                    rest \in Splits(SubSeq(bytes, k + 1, Len(bytes)), n - 1)} :
                k \in 1..(Len(bytes) - 1)}

ChunkedBodies == UNION {Splits(bytes, MaxChunks) : bytes \in Bodies}

\* the text of a non-success response body
ErrorBodies == {"", "Unknown server_id"}

-----------------------------------------------------------------------------
(* Forwarding layer: the server registry (lib/vllmServers) and the routes *)

\* A URL is a text whose units are a scheme, a host, the path segment "/v1",
\* single slashes and whitespace.  A credential or an id is a text as well.
HttpSchemes == {"http://", "https://"}
Hosts == {"a", "b", "env", "x", "vllm-lfm25-jp:8000", "localhost:8000"}

\* s.replace(/\/+$/, "")
RECURSIVE StripSlashes(_)
StripSlashes(s) ==
    IF s # <<>> /\ s[Len(s)] = "/" THEN StripSlashes(SubSeq(s, 1, Len(s) - 1)) ELSE s

\* /^https?:\/\//i.test(trimmed), and new URL(trimmed) does not throw
IsHttpUrl(trimmed) ==
    /\ Len(trimmed) >= 2
    /\ trimmed[1] \in HttpSchemes
    /\ trimmed[2] \in Hosts

\* normalizeBaseUrl of lib/vllmServers: value is a string
vllmServers_normalizeBaseUrl(value) ==
    LET trimmed == StripSlashes(Trim(value))
    IN  IF trimmed = <<>> THEN Null
        ELSE IF ~IsHttpUrl(trimmed) THEN Null
        ELSE trimmed

\* normalizeBaseUrl of the routes: raw is <<>> when the request has no base_url
\* and <<text>> when it has the string text
normalizeBaseUrl(raw) ==
    IF raw = <<>> \/ raw[1] = <<>> THEN Null
    ELSE LET trimmed == StripSlashes(Trim(raw[1]))
         IN  IF ~IsHttpUrl(trimmed) THEN Null ELSE trimmed

ensureV1(baseUrl) ==
    IF baseUrl # <<>> /\ baseUrl[Len(baseUrl)] = "/v1" THEN baseUrl ELSE Append(baseUrl, "/v1")

\* getEnv(name, fallback) on the environment e; an unset variable is <<>>
getEnv(e, name, fallback) ==
    IF Trim(e[name]) # <<>> THEN Trim(e[name]) ELSE fallback

\* normalizeModels for a list of strings: trimmed, non-empty, each id once;
\* <<>> stands for undefined
normalizeModels(raw) ==
    LET F[k \in 0..Len(raw)] ==
            IF k = 0 THEN <<>>
            ELSE LET id == Trim(raw[k])
                 IN  IF id = <<>> \/ \E j \in DOMAIN F[k - 1] : F[k - 1][j].id = id
                     THEN F[k - 1]
                     ELSE Append(F[k - 1], [id |-> id])
    IN  F[Len(raw)]

\* sanitizeServer(raw, index): <<server>>, or <<>> for null when the base URL
\* is not valid.  A property of raw is <<v>> when it is a string and <<>>
\* otherwise.
sanitizeServer(raw, index) ==
    LET baseUrl == vllmServers_normalizeBaseUrl(IF raw.baseUrl = <<>> THEN <<>> ELSE raw.baseUrl[1])
        idRaw == IF raw.id = <<>> THEN <<>> ELSE Trim(raw.id[1])
        apiKeyRaw == IF raw.apiKey = <<>> THEN <<>> ELSE Trim(raw.apiKey[1])
    IN  IF baseUrl = Null THEN <<>>
        ELSE <<[id |-> IF idRaw # <<>> THEN idRaw ELSE <<"server_", ToString(index + 1)>>,
                baseUrl |-> baseUrl,
                apiKey |-> IF apiKeyRaw # <<>> THEN <<apiKeyRaw>> ELSE <<>>,
                models |-> normalizeModels(raw.models)]>>

\* servers.filter(...) of getServers: the first server of each id
FirstOfEachId(servers) ==
    LET F[k \in 0..Len(servers)] ==
            IF k = 0 THEN <<>>
            ELSE IF \E j \in DOMAIN F[k - 1] : F[k - 1][j].id = servers[k].id
                 THEN F[k - 1]
                 ELSE Append(F[k - 1], servers[k])
    IN  F[Len(servers)]

\* getServers(): VLLM_SERVERS as JSON.parse yields it (<<>> when unset, not
\* JSON or not an array), else the one server of VLLM_BASE_URL
getServers(e) ==
    LET parsed == e.VLLM_SERVERS
        G[k \in 0..Len(parsed)] ==
            IF k = 0 THEN <<>>
            ELSE G[k - 1] \o sanitizeServer(parsed[k], k - 1)
        servers == G[Len(parsed)]
        baseUrl == vllmServers_normalizeBaseUrl(e.VLLM_BASE_URL)
        apiKey == Trim(e.VLLM_API_KEY)
    IN  FirstOfEachId(
            IF servers # <<>> THEN servers
            ELSE IF baseUrl = Null THEN <<>>
            ELSE <<[id |-> <<"default">>, baseUrl |-> baseUrl,
                    apiKey |-> IF apiKey # <<>> THEN <<apiKey>> ELSE <<>>,
                    models |-> normalizeModels(e.VLLM_MODELS)]>>)

\* getServerById(id): <<server>>, or <<>> for null when there is none
getServerById(e, id) ==
    LET servers == getServers(e)
        hits == {k \in DOMAIN servers : servers[k].id = id}
    IN  IF id = <<>> \/ hits = {} THEN <<>>
        ELSE <<servers[CHOOSE k \in hits : \A j \in hits : k <= j]>>

\* the fallbacks of the routes
DefaultChatBaseUrl == <<"http://", "vllm-lfm25-jp:8000", "/v1">>
DefaultModelsBaseUrl == <<"http://", "localhost:8000", "/v1">>
DefaultModel == <<"LiquidAI/LFM2.5-1.2B-JP">>

\* faulty variant of pickBaseUrl: the override of the request comes first
pickBaseUrlOverrideFirst(e, server, baseUrlOverride, fallback) ==
    IF baseUrlOverride # Null THEN baseUrlOverride
    ELSE IF server # <<>> THEN server[1].baseUrl
    ELSE getEnv(e, "VLLM_BASE_URL", fallback)

\* server?.baseUrl ?? baseUrlOverride ?? getEnv("VLLM_BASE_URL", fallback);
\* server is <<>> for null
pickBaseUrl(e, server, baseUrlOverride, fallback) ==
    IF server # <<>> THEN server[1].baseUrl
    ELSE IF baseUrlOverride # Null THEN baseUrlOverride
    ELSE getEnv(e, "VLLM_BASE_URL", fallback)

\* server ? (server.apiKey ?? getEnv("VLLM_API_KEY", ""))
\*        : requestKey || getEnv("VLLM_API_KEY", "")
pickApiKey(e, server, requestKey) ==
    IF server # <<>>
    THEN (IF server[1].apiKey # <<>> THEN server[1].apiKey[1] ELSE getEnv(e, "VLLM_API_KEY", <<>>))
    ELSE IF requestKey # <<>> THEN requestKey ELSE getEnv(e, "VLLM_API_KEY", <<>>)

\* the string a request carries under a name, trimmed; <<>> when it has none
Param(opt) == IF opt = <<>> THEN <<>> ELSE Trim(opt[1])

\* a response of a route made before any upstream request
Rejected(status, error) == [status |-> status, error |-> error, upstream |-> <<>>]

\* the upstream request a route is about to make; status 0: no response yet
Upstream(url, key, model) ==
    [status |-> 0, error |-> "",
     upstream |-> <<[url |-> url, key |-> key, model |-> model]>>]

\* faulty variant of ChatRequest: an unknown server id falls back to the
\* sources of lower precedence
ChatRequestFallsBack(e, body) ==
    LET serverId == Param(body.server_id)
        server == IF serverId # <<>> THEN getServerById(e, serverId) ELSE <<>>
        baseUrlOverride == normalizeBaseUrl(body.base_url)
        baseUrl == ensureV1(pickBaseUrl(e, server, baseUrlOverride, DefaultChatBaseUrl))
        requestedModel == Param(body.model)
        fallbackModel == IF server # <<>> /\ server[1].models # <<>> THEN server[1].models[1].id
                         ELSE getEnv(e, "VLLM_MODEL", DefaultModel)
    IN  IF body.base_url # <<>> /\ body.base_url[1] # <<>> /\ baseUrlOverride = Null
        THEN Rejected(400, "Invalid base_url")
        ELSE Upstream(StripSlashes(baseUrl) \o <<"/chat/completions">>,
                      pickApiKey(e, server, Param(body.api_key)),
                      IF requestedModel # <<>> THEN requestedModel ELSE fallbackModel)

\* POST of app/api/chat up to its fetch: a rejection or the upstream request.
\* A property of body is <<v>> when it is the string v and <<>> otherwise.
ChatRequest(e, body) ==
    LET serverId == Param(body.server_id)
        server == IF serverId # <<>> THEN getServerById(e, serverId) ELSE <<>>
        baseUrlOverride == normalizeBaseUrl(body.base_url)
        baseUrl == ensureV1(pickBaseUrl(e, server, baseUrlOverride, DefaultChatBaseUrl))
        requestedModel == Param(body.model)
        fallbackModel == IF server # <<>> /\ server[1].models # <<>> THEN server[1].models[1].id
                         ELSE getEnv(e, "VLLM_MODEL", DefaultModel)
    IN  IF serverId # <<>> /\ server = <<>> THEN Rejected(400, "Unknown server_id")
        ELSE IF body.base_url # <<>> /\ body.base_url[1] # <<>> /\ baseUrlOverride = Null
        THEN Rejected(400, "Invalid base_url")
        ELSE Upstream(StripSlashes(baseUrl) \o <<"/chat/completions">>,
                      pickApiKey(e, server, Param(body.api_key)),
                      IF requestedModel # <<>> THEN requestedModel ELSE fallbackModel)

\* GET of app/api/models up to its fetch; the credential of the request is the
\* x-vllm-api-key header or else the api_key parameter
ModelsRequest(e, query) ==
    LET serverId == Param(query.server_id)
        server == IF serverId # <<>> THEN getServerById(e, serverId) ELSE <<>>
        baseUrlOverride == normalizeBaseUrl(query.base_url)
        baseUrl == StripSlashes(
                       ensureV1(pickBaseUrl(e, server, baseUrlOverride, DefaultModelsBaseUrl)))
        requestKey == IF Param(query.header) # <<>> THEN Param(query.header)
                      ELSE Param(query.api_key)
    IN  IF serverId # <<>> /\ server = <<>> THEN Rejected(400, "Unknown server_id")
        ELSE IF query.base_url # <<>> /\ query.base_url[1] # <<>> /\ baseUrlOverride = Null
        THEN Rejected(400, "Invalid base_url")
        ELSE Upstream(baseUrl \o <<"/models">>, pickApiKey(e, server, requestKey), <<>>)

\* what the upstream fetch of a route may do: throw, answer with a non-success
\* status, answer with success
Outcomes == {"throws", "refused", "ok"}

\* no route has run yet
Idle ==
    [route |-> "none", for |-> Null, req |-> <<>>, status |-> 0, error |-> "", upstream |-> <<>>]

\* environments: a registry of two servers, the first with a credential and a
\* model list, with a default base URL and a default credential beside it
Deployed ==
    [VLLM_SERVERS |->
        << [id |-> << <<"a">> >>, baseUrl |-> << <<"http://", "a", "/">> >>,
            apiKey |-> << <<"ka">> >>, models |-> << <<"m">>, <<"m2">> >>],
           [id |-> << <<"b", " ">> >>, baseUrl |-> << <<"https://", "b", "/v1">> >>,
            apiKey |-> <<>>, models |-> <<>>] >>,
     VLLM_BASE_URL |-> <<"http://", "env">>,
     VLLM_API_KEY |-> <<"ke">>,
     VLLM_MODEL |-> <<"me">>,
     VLLM_MODELS |-> <<>>]

\* no registry: the one server "default" is made of VLLM_BASE_URL
SingleEnv == [Deployed EXCEPT !.VLLM_SERVERS = <<>>, !.VLLM_MODELS = << <<"m">> >>]

\* nothing is set
BareEnv ==
    [VLLM_SERVERS |-> <<>>, VLLM_BASE_URL |-> <<>>, VLLM_API_KEY |-> <<>>,
     VLLM_MODEL |-> <<>>, VLLM_MODELS |-> <<>>]

\* a registry with an entry without id, an entry whose base URL is not valid
\* and two entries of one id; no default credential
MessyEnv ==
    [Deployed EXCEPT
        !.VLLM_SERVERS =
            << [id |-> <<>>, baseUrl |-> << <<"http://", "b">> >>, apiKey |-> <<>>, models |-> <<>>],
               [id |-> << <<"a">> >>, baseUrl |-> << <<"ftp://", "a">> >>,
                apiKey |-> << <<"ka">> >>, models |-> <<>>],
               [id |-> << <<"a">> >>, baseUrl |-> << <<" ", "http://", "a", "/", "/">> >>,
                apiKey |-> << <<"ka">> >>, models |-> << <<"m">>, <<"m">> >>],
               [id |-> << <<"a">> >>, baseUrl |-> << <<"http://", "x">> >>,
                apiKey |-> <<>>, models |-> <<>>] >>,
        !.VLLM_API_KEY = <<" ">>]

Envs == {Deployed, SingleEnv, BareEnv, MessyEnv}

\* the requests a caller may make: with or without a server id (registered,
\* padded, unknown, blank), an override (valid, not valid), a model (listed
\* for server a, not listed) and a credential
Requests ==
    [server_id : {<<>>, << <<"a">> >>, << <<"b", " ">> >>, << <<"zz">> >>, << <<" ">> >>},
     base_url : {<<>>, << <<"https://", "x", "/">> >>, << <<"ftp://", "x">> >>},
     model : {<<>>, << <<"m">> >>, << <<"zzz">> >>},
     api_key : {<<>>, << <<"kr">> >>}]

Queries ==
    [server_id : {<<>>, << <<"a">> >>, << <<"zz">> >>},
     base_url : {<<>>, << <<"https://", "x", "/">> >>, << <<"ftp://", "x">> >>},
     api_key : {<<>>, << <<"kr">> >>},
     header : {<<>>, << <<"kh">> >>}]

-----------------------------------------------------------------------------
(* State *)

CanUid(k) == (nextId - 1) + (nextConv - 1) + k <= MaxIds

\* `last` names the turn accepted in the last step, if one was; every other
\* step (a rejected turn, another handler, a continuation of a cycle) leaves Other.
Did(op, ok, conv, msg, aid) ==
    [op |-> op, ok |-> ok, conv |-> conv, msg |-> msg, aid |-> aid, again |-> msg \in edits]
Other == Did("other", FALSE, Null, Null, Null)
\* the step in which a cycle left its read loop: the cycle as it was then
Ended(cy) == [Did("done", TRUE, cy.convId, Null, cy.assistantId) EXCEPT !.again = FALSE] @@ [cycle |-> cy]

\* the mount effect with nothing persisted: one new conversation, active
Mount ==
    /\ conversations = <<newConversation(uid(0))>>
    /\ activeId = uid(0)
    /\ isStreaming = FALSE
    /\ abortRef = Null
    /\ editingMsgId = Null
    /\ cycles = {}
    /\ nextId = 1
    /\ nextConv = 1
    /\ edits = {}
    /\ last = Other
    /\ exported = <<>>
    /\ importing = <<>>
    /\ picked = 0
    /\ served = Idle

\* the page is mounted; the server runs with a registry of two servers
Init == Mount /\ env = Deployed

\* streamChat up to its first await: the cycle is suspended at fetch
NewCycle(convId, assistantId, messagesForModel, conv) ==
    [convId |-> convId, assistantId |-> assistantId, messagesForModel |-> messagesForModel,
     modelId |-> conv.modelId, serverId |-> conv.serverId, maxTokens |-> conv.maxTokens,
     pc |-> "fetch", aborted |-> FALSE, body |-> <<>>, buffer |-> <<>>, finalUsage |-> <<>>,
     \* what the read loop has been given and has done so far
     received |-> <<>>, records |-> <<>>, sawDone |-> FALSE, afterDone |-> <<>>]

\* setIsStreaming(true); abortRef.current = ac
StartCycle(cy) ==
    /\ isStreaming' = TRUE
    /\ abortRef' = cy.assistantId
    /\ cycles' = cycles \cup {cy}

\* the response of POST once the upstream fetch has thrown, was refused or
\* succeeded
ChatResponse(r, o) ==
    IF r.upstream = <<>> THEN r
    ELSE IF o = "throws" THEN [r EXCEPT !.status = 502, !.error = "Failed to reach vLLM server"]
    ELSE IF o = "refused" THEN [r EXCEPT !.status = 502, !.error = "Upstream error"]
    ELSE [r EXCEPT !.status = 200]

\* POST of app/api/chat; who is the cycle whose fetch this is, "null" for a
\* request that comes from elsewhere
POST(who, body) ==
    /\ \E o \in Outcomes :
        served' = [route |-> "chat", for |-> who, req |-> body]
                  @@ ChatResponse(ChatRequest(env, body), o)
    /\ last' = Other
    /\ UNCHANGED <<conversations, activeId, isStreaming, abortRef, editingMsgId, cycles,
                   nextId, nextConv, edits, exported, importing, picked, env>>

\* the response of GET: the upstream's response is passed on with its status
ModelsResponse(r, o) ==
    IF r.upstream = <<>> THEN r
    ELSE IF o = "throws" THEN [r EXCEPT !.status = 500, !.error = "fetch failed"]
    ELSE IF o = "refused" THEN [r EXCEPT !.status = 401, !.error = "Unauthorized"]
    ELSE [r EXCEPT !.status = 200]

\* GET of app/api/models
GET(query) ==
    /\ \E o \in Outcomes :
        served' = [route |-> "models", for |-> Null, req |-> query]
                  @@ ModelsResponse(ModelsRequest(env, query), o)
    /\ last' = Other
    /\ UNCHANGED <<conversations, activeId, isStreaming, abortRef, editingMsgId, cycles,
                   nextId, nextConv, edits, exported, importing, picked, env>>

-----------------------------------------------------------------------------
(* Turn controller *)

appendUserAndRun(input, pendingImage) ==
    LET a == ActiveConv
        \* ensureActive
        c == IF a = 0 THEN newConversation(uid(0 - nextConv)) ELSE conversations[a]
        ensured == IF a = 0 THEN <<c>> \o conversations ELSE conversations
        made == IF a = 0 THEN 1 ELSE 0
        n == nextId
        text == TrimEnd(input)
        hasText == Len(Trim(text)) > 0
        userMsg == UserMessage(uid(n), text, hasText, pendingImage)
        assistantMsg == AssistantPlaceholder(uid(n + 1), c.modelId, c.serverId)
        k == FindConv(conversations, c.id)
        conv == IF k = 0 THEN c ELSE conversations[k]
        tempConv == [conv EXCEPT !.messages = conv.messages \o <<userMsg>>]
        latest == buildMessagesForModel(tempConv, resolveVisionSupport(c.modelId), Undefined)
    IN  /\ pendingImage \in PendingImages(c.modelId)
        /\ IF isStreaming \/ (~hasText /\ ~pendingImage)
           THEN /\ CanUid(made)
                /\ conversations' = ensured
                /\ activeId' = c.id
                /\ nextConv' = nextConv + made
                /\ last' = Other /\ UNCHANGED io
                /\ UNCHANGED <<isStreaming, abortRef, editingMsgId, cycles, nextId, edits>>
           ELSE /\ CanUid(made + 2)
                /\ nextConv' = nextConv + made
                /\ conversations' = updateConv(ensured, c.id,
                                        [cv \in Conversations(ensured) |-> AppendTurn(cv, userMsg, assistantMsg)])
                /\ activeId' = c.id
                /\ nextId' = n + 2
                /\ StartCycle(NewCycle(c.id, assistantMsg.id, latest, c))
                /\ last' = Did("send", TRUE, c.id, userMsg.id, assistantMsg.id) /\ UNCHANGED io
                /\ UNCHANGED <<editingMsgId, edits>>

\* faulty variant of runFromUserMessage: the target's role is not tested
runFromUserMessageAnyRole(latest, rendered, convId, userMsgId) ==
    LET k == FindConv(rendered, convId)
        conv == rendered[k]
        hits == IF k = 0 THEN {} ELSE {i \in DOMAIN conv.messages : conv.messages[i].id = userMsgId}
        userIndex == IF hits = {} THEN 0 ELSE CHOOSE i \in hits : \A j \in hits : i <= j
        assistantMsg == AssistantPlaceholder(uid(nextId), conv.modelId, conv.serverId)
    IN  IF isStreaming \/ k = 0 \/ userIndex = 0
        THEN [ok |-> FALSE, conversations |-> latest, cycle |-> <<>>]
        ELSE [ok |-> TRUE,
              conversations |-> updateConv(latest, convId,
                                    [c \in Conversations(latest) |-> ReplaceFrom(c, userIndex, assistantMsg)]),
              cycle |-> <<NewCycle(convId, assistantMsg.id,
                            buildMessagesForModel(conv, resolveVisionSupport(conv.modelId), userMsgId),
                            conv)>>]

\* runFromUserMessage as called from a handler whose closure holds `rendered`
\* while `latest` is the state its queued updaters see.
runFromUserMessage(latest, rendered, convId, userMsgId) ==
    LET k == FindConv(rendered, convId)
        conv == rendered[k]
        userIndex == IF k = 0 THEN 0 ELSE findIndex(conv.messages, userMsgId, "user")
        assistantMsg == AssistantPlaceholder(uid(nextId), conv.modelId, conv.serverId)
    IN  IF isStreaming \/ k = 0 \/ userIndex = 0
        THEN [ok |-> FALSE, conversations |-> latest, cycle |-> <<>>]
        ELSE [ok |-> TRUE,
              conversations |-> updateConv(latest, convId,
                                    [c \in Conversations(latest) |-> ReplaceFrom(c, userIndex, assistantMsg)]),
              cycle |-> <<NewCycle(convId, assistantMsg.id,
                            buildMessagesForModel(conv, resolveVisionSupport(conv.modelId), userMsgId),
                            conv)>>]

Run(op, r, convId, msgId) ==
    /\ conversations' = r.conversations
    /\ IF r.ok
       THEN /\ CanUid(1)
            /\ nextId' = nextId + 1
            /\ StartCycle(r.cycle[1])
            /\ last' = Did(op, TRUE, convId, msgId, r.cycle[1].assistantId) /\ UNCHANGED io
            /\ edits' = IF op = "saveEdit" THEN edits \cup {msgId} ELSE edits
       ELSE /\ last' = Other /\ UNCHANGED io
            /\ UNCHANGED <<isStreaming, abortRef, cycles, nextId, edits>>
    /\ UNCHANGED nextConv

\* the Resend button of message msgId of the active conversation
Resend(msgId) ==
    /\ ActiveConv # 0
    /\ Run("resend", runFromUserMessage(conversations, conversations, activeId, msgId),
           activeId, msgId)
    /\ UNCHANGED <<activeId, editingMsgId>>

\* faulty variant of PrecedingUser: the scan runs forward from the start
PrecedingUserFirst(msgs, idx) ==
    LET hits == {i \in 1..(idx - 1) : msgs[i].role = "user"}
    IN  IF hits = {} THEN 0 ELSE CHOOSE i \in hits : \A j \in hits : i <= j

\* index of the nearest user message before idx, 0 when there is none
PrecedingUser(msgs, idx) ==
    LET hits == {i \in 1..(idx - 1) : msgs[i].role = "user"}
    IN  IF hits = {} THEN 0 ELSE CHOOSE i \in hits : \A j \in hits : j <= i

\* the Regenerate button of message msgId of the active conversation
regenerateFromAssistant(msgId) ==
    /\ ActiveConv # 0
    /\ LET conv == conversations[ActiveConv]
           idx == findIndex(conv.messages, msgId, "assistant")
           j == IF idx = 0 THEN 0 ELSE PrecedingUser(conv.messages, idx)
       IN  IF j = 0
           THEN /\ last' = Other /\ UNCHANGED edits /\ UNCHANGED io
                /\ UNCHANGED <<conversations, isStreaming, abortRef, cycles, nextId, nextConv>>
           ELSE Run("regenerate",
                    runFromUserMessage(conversations, conversations, activeId, conv.messages[j].id),
                    activeId, msgId)
    /\ UNCHANGED <<activeId, editingMsgId>>

startEdit(msgId) ==
    /\ editingMsgId' = msgId
    /\ last' = Other /\ UNCHANGED edits /\ UNCHANGED io
    /\ UNCHANGED <<conversations, activeId, isStreaming, abortRef, cycles, nextId, nextConv>>

cancelEdit ==
    /\ editingMsgId' = Null
    /\ last' = Other /\ UNCHANGED edits /\ UNCHANGED io
    /\ UNCHANGED <<conversations, activeId, isStreaming, abortRef, cycles, nextId, nextConv>>

saveEdit(editingText) ==
    LET a == ActiveConv
        newText == TrimEnd(editingText)
        idx == IF a = 0 THEN 0 ELSE findIndex(conversations[a].messages, editingMsgId, "user")
    IN  IF a = 0 \/ editingMsgId = Null \/ isStreaming \/ idx = 0
        THEN /\ last' = Other /\ UNCHANGED edits /\ UNCHANGED io
             /\ UNCHANGED <<conversations, activeId, isStreaming, abortRef, editingMsgId,
                            cycles, nextId, nextConv>>
        ELSE /\ Run("saveEdit",
                    runFromUserMessage(
                        updateConv(conversations, activeId,
                                   [c \in Conversations(conversations) |-> EditKeep(c, idx, editingMsgId, newText)]),
                        conversations, activeId, editingMsgId),
                    activeId, editingMsgId)
             /\ editingMsgId' = Null
             /\ UNCHANGED activeId

-----------------------------------------------------------------------------
(* Conversation list handlers *)

createNewChat ==
    /\ CanUid(1)
    /\ conversations' = <<newConversation(uid(0 - nextConv))>> \o conversations
    /\ activeId' = uid(0 - nextConv)
    /\ nextConv' = nextConv + 1
    /\ editingMsgId' = Null
    /\ last' = Other /\ UNCHANGED edits /\ UNCHANGED io
    /\ UNCHANGED <<isStreaming, abortRef, cycles, nextId>>

\* a click on a conversation of the sidebar
selectChat(id) ==
    /\ activeId' = id
    /\ last' = Other /\ UNCHANGED edits /\ UNCHANGED io
    /\ UNCHANGED <<conversations, isStreaming, abortRef, editingMsgId, cycles, nextId, nextConv>>

deleteChat(id) ==
    LET rest == filterOut(conversations, id)
    IN  /\ conversations' = rest
        /\ activeId' = IF activeId = id
                       THEN (IF Len(rest) > 0 THEN rest[1].id ELSE Null)
                       ELSE activeId
        /\ last' = Other /\ UNCHANGED edits /\ UNCHANGED io
        /\ UNCHANGED <<isStreaming, abortRef, editingMsgId, cycles, nextId, nextConv>>

\* abortRef.current?.abort()
Abort(cys, ref) ==
    {IF cy.assistantId = ref THEN [cy EXCEPT !.aborted = TRUE] ELSE cy : cy \in cys}

clearAll ==
    /\ CanUid(1)
    /\ conversations' = <<newConversation(uid(0 - nextConv))>>
    /\ activeId' = uid(0 - nextConv)
    /\ nextConv' = nextConv + 1
    /\ editingMsgId' = Null
    /\ isStreaming' = FALSE
    /\ cycles' = Abort(cycles, abortRef)
    /\ abortRef' = Null
    /\ last' = Other /\ UNCHANGED edits /\ UNCHANGED io
    /\ UNCHANGED nextId

stopStreaming ==
    /\ cycles' = Abort(cycles, abortRef)
    /\ last' = Other /\ UNCHANGED edits /\ UNCHANGED io
    /\ UNCHANGED <<conversations, activeId, isStreaming, abortRef, editingMsgId, nextId, nextConv>>

-----------------------------------------------------------------------------
(* Stream orchestrator: the continuations of one streamChat cycle *)

AbortError == [name |-> "AbortError", message |-> "The user aborted a request."]
NetworkError == [name |-> "TypeError", message |-> "Failed to fetch"]

\* new Error(`HTTP ${res.status}: ${text || "stream failed"}`)
HttpError(text) ==
    [name |-> "Error",
     message |-> IF text = "" THEN "HTTP 500: stream failed"
                 ELSE IF text = "Unknown server_id" THEN "HTTP 400: Unknown server_id"
                 ELSE "HTTP 502: " \o text]

\* faulty variant of Finally: the handle is left in place
FinallyKeepsHandle(cy) ==
    /\ isStreaming' = FALSE
    /\ abortRef' = abortRef
    /\ cycles' = cycles \ {cy}

\* faulty variant of Finally: the busy flag is left set
FinallyKeepsBusy(cy) ==
    /\ isStreaming' = isStreaming
    /\ abortRef' = Null
    /\ cycles' = cycles \ {cy}

\* the finally block
Finally(cy) ==
    /\ isStreaming' = FALSE
    /\ abortRef' = Null
    /\ cycles' = cycles \ {cy}

\* the catch block, then finally
Catch(cy, e) ==
    /\ conversations' = updateConv(conversations, cy.convId,
            [c \in Conversations(conversations) |-> FinalizeCatch(c, cy.assistantId, e, cy.modelId, cy.serverId)])
    /\ Finally(cy)
    /\ last' = Other /\ UNCHANGED io
    /\ UNCHANGED <<activeId, editingMsgId, nextId, nextConv, edits>>

\* await fetch(...) rejects
FetchFails(cy) ==
    /\ cy.pc = "fetch"
    /\ Catch(cy, IF cy.aborted THEN AbortError ELSE NetworkError)

\* await fetch(...) yields a response: body is its stream, <<>> standing for
\* !res.ok || !res.body when ok is FALSE
FetchResponds(cy, ok, body) ==
    /\ cy.pc = "fetch"
    /\ ~cy.aborted
    /\ ok <=> body # <<>>
    /\ cycles' = (cycles \ {cy}) \cup
                    {[cy EXCEPT !.pc = IF ok THEN "read" ELSE "errbody", !.body = body]}
    /\ last' = Other /\ UNCHANGED edits /\ UNCHANGED io
    /\ UNCHANGED <<conversations, activeId, isStreaming, abortRef, editingMsgId, nextId,
                   nextConv>>

\* faulty variant of ErrorBodySettles: nothing is thrown and the cycle completes
ErrorBodySettlesFallsThrough(cy, text) ==
    /\ cy.pc = "errbody"
    /\ cy.aborted <=> text = ""
    /\ conversations' = updateConv(conversations, cy.convId,
            [c \in Conversations(conversations) |->
                FinalizeDone(c, cy.assistantId, cy.finalUsage, cy.modelId, cy.serverId)])
    /\ Finally(cy)
    /\ last' = Other /\ UNCHANGED io
    /\ UNCHANGED <<activeId, editingMsgId, nextId, nextConv, edits>>

\* await res.text().catch(() => "") settles, for !res.ok || !res.body
ErrorBodySettles(cy, text) ==
    /\ cy.pc = "errbody"
    /\ cy.aborted <=> text = ""
    /\ Catch(cy, HttpError(text))

\* await reader.read() rejects
ReadFails(cy) ==
    /\ cy.pc = "read"
    /\ Catch(cy, IF cy.aborted THEN AbortError ELSE NetworkError)

\* await reader.read() yields the next chunk
ReadChunk(cy) ==
    /\ cy.pc = "read"
    /\ ~cy.aborted
    /\ cy.body # <<>>
    /\ LET st == PumpChunk(cy.buffer, cy.finalUsage, Head(cy.body))
       IN  /\ conversations' = updateConv(conversations, cy.convId,
                    [c \in Conversations(conversations) |-> ApplyDeltas(c, cy.assistantId, st.deltas)])
           /\ cycles' = (cycles \ {cy}) \cup
                    {[cy EXCEPT !.buffer = st.buffer, !.finalUsage = st.usage,
                                !.body = Tail(@),
                                !.received = @ \o Head(cy.body),
                                !.records = @ \o st.records,
                                !.sawDone = @ \/ st.done,
                                !.afterDone = IF cy.sawDone THEN @ \o st.records ELSE @]}
           /\ last' = Other /\ UNCHANGED edits /\ UNCHANGED io
    /\ UNCHANGED <<activeId, isStreaming, abortRef, editingMsgId, nextId, nextConv>>

\* faulty variant of ReadDone: the rest of the buffer is handled as a last line
ReadDoneFlushes(cy) ==
    LET st == PumpChunk(cy.buffer, cy.finalUsage, <<LF>>)
    IN  /\ cy.pc = "read"
        /\ ~cy.aborted
        /\ cy.body = <<>>
        /\ conversations' = updateConv(conversations, cy.convId,
                [c \in Conversations(conversations) |->
                    FinalizeDone(ApplyDeltas(c, cy.assistantId, st.deltas), cy.assistantId,
                                 st.usage, cy.modelId, cy.serverId)])
        /\ Finally(cy)
        /\ last' = Ended(cy) /\ UNCHANGED edits /\ UNCHANGED io
        /\ UNCHANGED <<activeId, editingMsgId, nextId, nextConv>>

\* await reader.read() yields done
ReadDone(cy) ==
    /\ cy.pc = "read"
    /\ ~cy.aborted
    /\ cy.body = <<>>
    /\ conversations' = updateConv(conversations, cy.convId,
            [c \in Conversations(conversations) |-> FinalizeDone(c, cy.assistantId, cy.finalUsage, cy.modelId, cy.serverId)])
    /\ Finally(cy)
    /\ last' = Ended(cy) /\ UNCHANGED edits /\ UNCHANGED io
    /\ UNCHANGED <<activeId, editingMsgId, nextId, nextConv>>

-----------------------------------------------------------------------------
(* Export and import *)

\* A document is what JSON.parse yields of a file.  A property of an object of
\* the document is <<v>> when it is there with a value v of the type the
\* importer tests for, and <<>> when it is missing or of another type.
\* JSON.stringify writes every property that is not undefined.
Opt(v) == IF v = Undefined THEN <<>> ELSE <<v>>

MessageJson(m) ==
    [id |-> Opt(m.id), role |-> <<m.role>>, content |-> <<m.content>>, image |-> m.image,
     status |-> <<m.status>>, meta |-> m.meta, error |-> m.error]

ConversationJson(c) ==
    [id |-> Opt(c.id), title |-> <<c.title>>, systemPrompt |-> <<c.systemPrompt>>,
     maxTokens |-> <<c.maxTokens>>, modelId |-> <<c.modelId>>, serverId |-> <<c.serverId>>,
     messages |-> <<[k \in DOMAIN c.messages |-> MessageJson(c.messages[k])]>>]

\* the payload of exportAll as the file holds it
ExportPayload(convs, active) ==
    [activeId |-> active,
     conversations |-> <<[k \in DOMAIN convs |-> ConversationJson(convs[k])]>>]

exportAll ==
    /\ Len(exported) < MaxExports
    /\ exported' = Append(exported, [doc |-> ExportPayload(conversations, activeId),
                                   store |-> conversations])
    /\ last' = Other
    /\ UNCHANGED <<conversations, activeId, isStreaming, abortRef, editingMsgId, cycles,
                   nextId, nextConv, edits, importing, picked, net>>

clamp(n, lo, hi) == IF n < lo THEN lo ELSE IF n > hi THEN hi ELSE n

MinTokens == 16
MaxTokens == 4096

\* the value of a property, undefined when it is not there
Get(opt) == IF opt = <<>> THEN Undefined ELSE opt[1]

\* a message of the file as titleFromFirstUser reads it
RawMessage(jm) ==
    [role |-> Get(jm.role), content |-> IF jm.content = <<>> THEN <<>> ELSE jm.content[1]]

\* faulty variant of SanitizeMessage: every imported message is done
SanitizeMessageAllDone(jm, fresh) ==
    [id |-> IF jm.id # <<>> THEN jm.id[1] ELSE fresh,
     role |-> IF Get(jm.role) \in {"user", "assistant", "system"} THEN jm.role[1] ELSE "user",
     content |-> IF jm.content # <<>> THEN jm.content[1] ELSE <<>>,
     image |-> jm.image,
     status |-> "done",
     meta |-> jm.meta,
     error |-> jm.error]

\* the messages.map callback of onImportFile; fresh is what uid() yields
SanitizeMessage(jm, fresh) ==
    [id |-> IF jm.id # <<>> THEN jm.id[1] ELSE fresh,
     role |-> IF Get(jm.role) \in {"user", "assistant", "system"} THEN jm.role[1] ELSE "user",
     content |-> IF jm.content # <<>> THEN jm.content[1] ELSE <<>>,
     image |-> jm.image,
     status |-> IF Get(jm.status) \in {"done", "streaming", "stopped", "error"}
                THEN jm.status[1] ELSE "done",
     meta |-> jm.meta,
     error |-> jm.error]

\* the uid() calls the importer makes for one conversation of the file
FreshConvs(jc, existingIds) == IF Get(jc.id) \in existingIds THEN 1 ELSE 0

FreshMessages(jc) ==
    LET msgs == IF jc.messages = <<>> THEN <<>> ELSE jc.messages[1]
    IN  Cardinality({k \in DOMAIN msgs : msgs[k].id = <<>>})

\* the imported.map callback of onImportFile; nConv and nMsg number the next
\* conversation token and the next message token uid() yields
SanitizeConversation(jc, existingIds, nConv, nMsg) ==
    LET msgs == IF jc.messages = <<>> THEN <<>> ELSE jc.messages[1]
        missing(k) == Cardinality({j \in 1..(k - 1) : msgs[j].id = <<>>})
    IN  [id |-> IF Get(jc.id) \in existingIds THEN uid(0 - nConv) ELSE Get(jc.id),
         title |-> IF jc.title # <<>> THEN jc.title[1]
                   ELSE titleFromFirstUser([k \in DOMAIN msgs |-> RawMessage(msgs[k])]),
         systemPrompt |-> IF jc.systemPrompt # <<>> THEN jc.systemPrompt[1] ELSE DefaultSystemPrompt,
         maxTokens |-> IF jc.maxTokens # <<>> THEN clamp(jc.maxTokens[1], Num(MinTokens), Num(MaxTokens))
                       ELSE Num(DefaultMaxTokens),
         modelId |-> IF jc.modelId # <<>> THEN jc.modelId[1] ELSE <<>>,
         serverId |-> IF jc.serverId # <<>> THEN jc.serverId[1] ELSE <<>>,
         messages |-> [k \in DOMAIN msgs |-> SanitizeMessage(msgs[k], uid(nMsg + missing(k)))]]

\* imported.map(...): the conversations of the file in file order
RECURSIVE Sanitize(_, _, _, _)
Sanitize(imported, existingIds, nConv, nMsg) ==
    IF imported = <<>> THEN <<>>
    ELSE <<SanitizeConversation(Head(imported), existingIds, nConv, nMsg)>>
         \o Sanitize(Tail(imported), existingIds,
                     nConv + FreshConvs(Head(imported), existingIds),
                     nMsg + FreshMessages(Head(imported)))

RECURSIVE Sum(_, _)
Sum(f, S) == IF S = {} THEN 0 ELSE LET x == CHOOSE x \in S : TRUE IN f[x] + Sum(f, S \ {x})

\* parsed?.conversations when it is an array, [] otherwise
Imported(doc) == IF doc.conversations = <<>> THEN <<>> ELSE doc.conversations[1]

\* the change event of the file input: the handler is suspended at file.text().
\* Its closure holds the conversations of the render it was created in, of which
\* it will read the ids only.
onImportFile(doc) ==
    /\ picked < MaxImports
    /\ picked' = picked + 1
    /\ importing' = Append(importing, [doc |-> doc,
                                     existingIds |-> {conversations[k].id : k \in DOMAIN conversations}])
    /\ last' = Other
    /\ UNCHANGED <<conversations, activeId, isStreaming, abortRef, editingMsgId, cycles,
                   nextId, nextConv, edits, exported, net>>

\* file.text() settles: the rest of onImportFile
ImportSettles(i) ==
    LET p == importing[i]
        imported == Imported(p.doc)
        existingIds == p.existingIds
        convTokens == Sum([k \in DOMAIN imported |-> FreshConvs(imported[k], existingIds)],
                          DOMAIN imported)
        msgTokens == Sum([k \in DOMAIN imported |-> FreshMessages(imported[k])], DOMAIN imported)
        sanitized == Sanitize(imported, existingIds, nextConv, nextId)
    IN  /\ importing' = [k \in 1..(Len(importing) - 1) |->
                            IF k < i THEN importing[k] ELSE importing[k + 1]]
        /\ IF imported = <<>>
           THEN /\ last' = Other
                /\ UNCHANGED <<conversations, activeId, nextId, nextConv>>
           ELSE /\ CanUid(convTokens + msgTokens)
                /\ conversations' = sanitized \o conversations
                /\ activeId' = sanitized[1].id
                /\ nextConv' = nextConv + convTokens
                /\ nextId' = nextId + msgTokens
                /\ last' = Did("import", TRUE, sanitized[1].id, Null, Null) @@ [import |-> p]
        /\ UNCHANGED <<isStreaming, abortRef, editingMsgId, cycles, edits, exported, picked, net>>

-----------------------------------------------------------------------------
(* Specification *)

ActiveMessageIds ==
    IF ActiveConv = 0 THEN {}
    ELSE {conversations[ActiveConv].messages[k].id : k \in DOMAIN conversations[ActiveConv].messages}

\* the Edit button exists on user messages only
ActiveUserMessageIds ==
    IF ActiveConv = 0 THEN {}
    ELSE {conversations[ActiveConv].messages[k].id :
            k \in {j \in DOMAIN conversations[ActiveConv].messages :
                        conversations[ActiveConv].messages[j].role = "user"}}

ConvIds == {conversations[k].id : k \in DOMAIN conversations}

\* the ids a Resend click can carry: those of the rows on screen and those of
\* rows of an earlier render, whose messages may be gone from the log
ResendIds == ActiveMessageIds \cup {uid(k) : k \in 1..(nextId - 1)}

Next ==
    \/ \E input \in Inputs, img \in BOOLEAN : appendUserAndRun(input, img)
    \/ \E m \in ResendIds : Resend(m)
    \/ \E m \in ActiveMessageIds : regenerateFromAssistant(m)
    \/ \E m \in ActiveUserMessageIds : startEdit(m)
    \/ cancelEdit
    \/ \E draft \in Drafts : saveEdit(draft)
    \/ createNewChat
    \/ \E id \in ConvIds : selectChat(id)
    \/ \E id \in ConvIds : deleteChat(id)
    \/ clearAll
    \/ stopStreaming
    \/ \E cy \in cycles : FetchFails(cy)
    \/ \E cy \in cycles, ok \in BOOLEAN, body \in Streams \cup {<<>>} : FetchResponds(cy, ok, body)
    \/ \E cy \in cycles, text \in ErrorBodies : ErrorBodySettles(cy, text)
    \/ \E cy \in cycles : ReadFails(cy)
    \/ \E cy \in cycles : ReadChunk(cy)
    \/ \E cy \in cycles : ReadDone(cy)

Spec == Init /\ [][Next]_vars

\* Sends answered by any body of Bodies in any chunking, read to the end or
\* until the transport fails
StreamNext ==
    \/ \E input \in Inputs, img \in BOOLEAN : appendUserAndRun(input, img)
    \/ \E cy \in cycles, body \in ChunkedBodies : FetchResponds(cy, TRUE, body)
    \/ \E cy \in cycles : ReadChunk(cy)
    \/ \E cy \in cycles : ReadDone(cy)
    \/ \E cy \in cycles : ReadFails(cy)

StreamSpec == Init /\ [][StreamNext]_vars

\* a text longer than the title cut, with a doubled space inside and one at the end
LongLen == 32

LongInput == [k \in 1..LongLen |-> IF k \in {5, 6, LongLen} THEN " " ELSE "x"]

\* a file written by hand: the conversation has an id, a blank system prompt, a
\* token limit out of range and messages; the log starts with an assistant
\* message and holds system messages, and the user message lacks its id and has
\* neither a valid role nor a valid status
ForeignFile ==
    LET base == [id |-> <<>>, role |-> <<>>, content |-> <<>>, image |-> FALSE,
                 status |-> <<>>, meta |-> NoMeta, error |-> Undefined]
        a1 == [base EXCEPT !.id = <<"a1">>, !.role = <<"assistant">>,
                           !.content = << <<"a">> >>, !.status = <<"stopped">>]
        s1 == [base EXCEPT !.id = <<"s1">>, !.role = <<"system">>, !.content = << <<"S">> >>]
        u1 == [base EXCEPT !.role = <<"tool">>, !.content = << <<"h">> >>, !.status = <<"sent">>]
        s2 == [s1 EXCEPT !.id = <<"s2">>]
        a2 == [base EXCEPT !.id = <<"a2">>, !.role = <<"assistant">>, !.status = <<"done">>]
    IN  [activeId |-> "x",
         conversations |->
            << << [id |-> <<"x">>, title |-> <<>>, systemPrompt |-> << <<" ">> >>,
                   maxTokens |-> <<Num(9999)>>, modelId |-> <<>>, serverId |-> <<>>,
                   messages |-> << <<a1, s1, u1, s2, a2>> >>] >> >>]

\* the files the user may pick in ImportSpec: those the app has exported
Files == {exported[k].doc : k \in DOMAIN exported}

\* turns in the conversation of the mount and in an imported one; a cycle ends
\* by a network failure
TurnNext ==
    \/ \E input \in {<<"h", " ">>, LongInput}, img \in BOOLEAN : appendUserAndRun(input, img)
    \/ \E m \in ResendIds : Resend(m)
    \/ \E m \in ActiveMessageIds : regenerateFromAssistant(m)
    \/ \E m \in ActiveUserMessageIds : startEdit(m)
    \/ \E draft \in Drafts : saveEdit(draft)
    \/ onImportFile(ForeignFile)
    \/ \E i \in DOMAIN importing : ImportSettles(i)
    \/ \E cy \in cycles : FetchFails(cy)

TurnSpec == Init /\ [][TurnNext]_vars

\* exports and imports between Sends and deletions; a cycle ends by a network
\* failure
ImportNext ==
    \/ \E input \in Inputs, img \in BOOLEAN : appendUserAndRun(input, img)
    \/ \E cy \in cycles : FetchFails(cy)
    \/ \E id \in ConvIds : deleteChat(id)
    \/ exportAll
    \/ \E doc \in Files : onImportFile(doc)
    \/ \E i \in DOMAIN importing : ImportSettles(i)

ImportSpec == Init /\ [][ImportNext]_vars

-----------------------------------------------------------------------------
(* Settings, and the store under imports and clearing *)

\* the change event of the Max tokens input of the settings panel, which shows
\* the active conversation and is disabled while streaming; value is
\* Number(e.target.value)
onMaxTokensChange(value) ==
    /\ ~isStreaming
    /\ ActiveConv # 0
    /\ conversations' = updateConv(conversations, activeId,
            [c \in Conversations(conversations) |->
                [c EXCEPT !.maxTokens = clamp(value, Num(MinTokens), Num(MaxTokens))]])
    /\ last' = Other /\ UNCHANGED edits /\ UNCHANGED io
    /\ UNCHANGED <<activeId, isStreaming, abortRef, editingMsgId, cycles, nextId, nextConv>>

\* what the input can hold: nothing (Number("") is 0), 100.5 and 5000
TokenInputs == {0, Num(100) + 1, Num(5000)}

\* a file that lists one conversation id twice: a conversation with a finished
\* turn and a token limit of 100.5, and an empty one
TwinsFile ==
    LET base == [id |-> <<>>, role |-> <<>>, content |-> <<>>, image |-> FALSE,
                 status |-> <<"done">>, meta |-> NoMeta, error |-> Undefined]
        tu == [base EXCEPT !.id = <<"tu">>, !.role = <<"user">>, !.content = << <<"h">> >>]
        ta == [base EXCEPT !.id = <<"ta">>, !.role = <<"assistant">>, !.content = << <<"a">> >>]
        twin == [id |-> <<"t">>, title |-> <<NewChatTitle>>, systemPrompt |-> <<DefaultSystemPrompt>>,
                 maxTokens |-> <<>>, modelId |-> <<>>, serverId |-> <<>>,
                 messages |-> << <<>> >>]
    IN  [activeId |-> "t",
         conversations |->
            << << [twin EXCEPT !.maxTokens = <<Num(100) + 1>>, !.messages = << <<tu, ta>> >>],
                  twin >> >>]

\* the store under Sends and Resends, deletions, Clear all (which makes the new
\* conversation), the import of TwinsFile and changes of the token limit; a
\* cycle ends by a network failure or by the abort
StoreNext ==
    \/ appendUserAndRun(<<"h">>, FALSE)
    \/ \E m \in ResendIds : Resend(m)
    \/ \E id \in ConvIds : deleteChat(id)
    \/ clearAll
    \/ onImportFile(TwinsFile)
    \/ \E i \in DOMAIN importing : ImportSettles(i)
    \/ \E value \in TokenInputs : onMaxTokensChange(value)
    \/ \E cy \in cycles : FetchFails(cy)

StoreSpec == Init /\ [][StoreNext]_vars

-----------------------------------------------------------------------------
(* Progress of a cycle *)

\* the bodies of LiveSpec: a fragment and the end marker, in one chunk or more
LiveBodies == Splits(<<DataPrefix, "{a}", LF, DataPrefix, DoneSentinel, LF>>, MaxChunks)

\* the cycle's pending await settles: fetch, res.text() or reader.read()
\* resolves or rejects, and the code after it runs to the next await or the end
Settles(cy) ==
    \/ FetchFails(cy)
    \/ ReadFails(cy)
    \/ \E text \in ErrorBodies : ErrorBodySettles(cy, text)
    \/ \E body \in LiveBodies : FetchResponds(cy, TRUE, body)
    \/ FetchResponds(cy, FALSE, <<>>)
    \/ ReadDone(cy)
    \/ ReadChunk(cy)

\* Sends, Stop and deletions, with cycles whose awaits settle in any of the
\* ways the transport allows
LiveNext ==
    \/ appendUserAndRun(<<"h">>, FALSE)
    \/ stopStreaming
    \/ \E id \in ConvIds : deleteChat(id)
    \/ \E cy \in cycles : Settles(cy)

\* The transport does not stall for ever: a pending await of a cycle in flight
\* settles at some time (once Stop has aborted the cycle, by rejecting).  The
\* continuation then runs, the event loop having nothing else to wait for.
LiveSpec == Init /\ [][LiveNext]_vars /\ WF_vars(\E cy \in cycles : Settles(cy))

-----------------------------------------------------------------------------
(* The routes on their own *)

\* the server runs with any of the environments
RouteInit == Mount /\ env \in Envs

\* requests of any caller to the two routes
RouteNext ==
    \/ \E body \in Requests : POST(Null, body)
    \/ \E query \in Queries : GET(query)

RouteSpec == RouteInit /\ [][RouteNext]_vars

-----------------------------------------------------------------------------
(* The client in front of the chat route *)

\* a file with a conversation that names a server that is not registered
BackendFile ==
    LET base == [id |-> <<>>, role |-> <<"user">>, content |-> << <<"h">> >>, image |-> FALSE,
                 status |-> <<"done">>, meta |-> NoMeta, error |-> Undefined]
        conv == [id |-> <<>>, title |-> <<NewChatTitle>>, systemPrompt |-> <<DefaultSystemPrompt>>,
                 maxTokens |-> <<Num(DefaultMaxTokens)>>, modelId |-> <<>>, serverId |-> <<>>,
                 messages |-> << <<>> >>]
    IN  [activeId |-> "s",
         conversations |->
            << << [conv EXCEPT !.id = <<"s">>, !.serverId = << <<"zz">> >>,
                               !.messages = << <<[base EXCEPT !.id = <<"su">>]>> >>] >> >>]

\* the body streamChat posts, as far as the route reads it: model and
\* server_id are there when they are not blank
Payload(cy) ==
    [server_id |-> IF Trim(cy.serverId) # <<>> THEN <<Trim(cy.serverId)>> ELSE <<>>,
     model |-> IF Trim(cy.modelId) # <<>> THEN <<Trim(cy.modelId)>> ELSE <<>>,
     base_url |-> <<>>,
     api_key |-> <<>>]

\* the route handles the request of a cycle suspended at fetch
Forwarded(cy) ==
    /\ cy.pc = "fetch"
    /\ served.for # cy.assistantId
    /\ POST(cy.assistantId, Payload(cy))

\* what the upstream streams when it answers: a fragment and the end marker
BackendBody == <<DataPrefix, "{a}", LF, DataPrefix, DoneSentinel, LF>>

\* the cycle's fetch resolves with the response of the route
Delivered(cy) ==
    /\ served.for = cy.assistantId
    /\ IF served.status = 200
       THEN FetchResponds(cy, TRUE, <<BackendBody>>)
       ELSE FetchResponds(cy, FALSE, <<>>)

\* turns in the conversation of the mount and in an imported one, each request
\* answered by the chat route
BackendNext ==
    \/ onImportFile(BackendFile)
    \/ \E i \in DOMAIN importing : ImportSettles(i)
    \/ appendUserAndRun(<<"h">>, FALSE)
    \/ \E m \in ResendIds : Resend(m)
    \/ \E cy \in cycles : Forwarded(cy)
    \/ \E cy \in cycles : Delivered(cy)
    \/ \E cy \in cycles : served.for = cy.assistantId /\ ErrorBodySettles(cy, served.error)
    \/ \E cy \in cycles : ReadChunk(cy)
    \/ \E cy \in cycles : ReadDone(cy)

BackendSpec == Init /\ [][BackendNext]_vars

-----------------------------------------------------------------------------
(* Vocabulary of the properties *)

\* a step in which the user asks for a turn, accepted or not
TurnStep ==
    \/ \E input \in Inputs, img \in BOOLEAN : appendUserAndRun(input, img)
    \/ \E m \in ResendIds : Resend(m)
    \/ \E m \in ActiveMessageIds : regenerateFromAssistant(m)
    \/ \E draft \in Drafts : saveEdit(draft)

\* a step in which the cycle's pending await fails and the catch block runs
FailureStep(cy) ==
    \/ FetchFails(cy)
    \/ ReadFails(cy)
    \/ \E text \in ErrorBodies : ErrorBodySettles(cy, text)

MessagesOf(convs, id) ==
    IF FindConv(convs, id) = 0 THEN <<>> ELSE convs[FindConv(convs, id)].messages

IdsOf(msgs) == {msgs[k].id : k \in DOMAIN msgs}

AllMessages(convs) ==
    UNION {{convs[c].messages[k] : k \in DOMAIN convs[c].messages} : c \in DOMAIN convs}

Terminal(status) == status \in {"done", "stopped", "error"}

IsFreshPlaceholder(m, id) ==
    /\ m.id = id
    /\ m.role = "assistant"
    /\ m.status = "streaming"
    /\ m.content = <<>>

\* the message with this id in the conversation's log, as a set (empty when gone)
Held(convs, convId, msgId) ==
    {m \in {MessagesOf(convs, convId)[k] : k \in DOMAIN MessagesOf(convs, convId)} : m.id = msgId}

CycleIds(cys) == {cy.assistantId : cy \in cys}

\* fragments joined in order
RECURSIVE Flatten(_)
Flatten(parts) == IF parts = <<>> THEN <<>> ELSE Head(parts) \o Flatten(Tail(parts))

\* the usage of the last of the records that carries one, <<>> if none does
LastUsage(records) ==
    LET us == {k \in DOMAIN records : records[k].usage # <<>>}
    IN  IF us = {} THEN <<>> ELSE records[CHOOSE k \in us : \A j \in us : j <= k].usage

\* a line that is blank, lacks the prefix, or whose payload is empty or is
\* neither [DONE] nor a text that parses
IsSkippedLine(line) ==
    LET t == Trim(line)
        payload == Trim(Tail(t))
    IN  \/ t = <<>>
        \/ t[1] # DataPrefix
        \/ payload = <<>>
        \/ payload # <<DoneSentinel>> /\ ~JsonParses(payload)

\* bytes without their complete lines of that kind
RECURSIVE DropSkipped(_)
DropSkipped(bytes) ==
    LET idx == indexOfLF(bytes)
    IN  IF idx = 0 THEN bytes
        ELSE LET line == SubSeq(bytes, 1, idx)
                 rest == DropSkipped(SubSeq(bytes, idx + 1, Len(bytes)))
             IN  IF IsSkippedLine(SubSeq(bytes, 1, idx - 1)) THEN rest
                 ELSE line \o rest

IsPrefix(s, t) == Len(s) <= Len(t) /\ SubSeq(t, 1, Len(s)) = s

\* a step that is a continuation of the cycle: a chunk, the end or a failure
OrchestratorStep(cy) == ReadChunk(cy) \/ ReadDone(cy) \/ FailureStep(cy)

\* conversation k of the two stores differs at most in the message msgId
SameButFor(old, new, msgId) ==
    /\ new.id = old.id
    /\ Len(new.messages) = Len(old.messages)
    /\ \A j \in DOMAIN old.messages :
            /\ new.messages[j].id = old.messages[j].id
            /\ old.messages[j].id # msgId => new.messages[j] = old.messages[j]

\* the placeholder of the cycle that left its read loop in the last step
EndedMessage == Held(conversations, last.conv, last.aid)

-----------------------------------------------------------------------------
(* Properties *)

\* C1: an accepted Resend on the user message at position i (counted from 0) of a
\* log of n messages leaves the messages 0..i as they were, followed by exactly
\* one new assistant placeholder (streaming, empty): i+2 messages, the anchor id
\* occurring once.
C1_ResendKeepsPrefix ==
    [][ (last'.op = "resend" /\ last'.ok) =>
            LET old == MessagesOf(conversations, last'.conv)
                new == MessagesOf(conversations', last'.conv)
                p == findIndex(old, last'.msg, "user")
            IN  /\ p > 0
                /\ Len(new) = p + 1
                /\ SubSeq(new, 1, p) = SubSeq(old, 1, p)
                /\ IsFreshPlaceholder(new[p + 1], last'.aid)
                /\ Cardinality({k \in DOMAIN new : new[k].id = last'.msg}) = 1
      ]_vars

\* C1 witness: a Resend was accepted on the third message of a log
C1_Witness ==
    /\ last.op = "resend"
    /\ last.ok
    /\ findIndex(MessagesOf(conversations, last.conv), last.msg, "user") = 3

\* C2: an accepted edit-save on the user message at position i replaces its
\* content by the saved draft, keeps the messages before it, discards every later
\* message and adds exactly one new placeholder: i+2 messages, none of the later
\* messages of the old log among them; also when the same message is saved again.
C2_EditSaveTruncates ==
    [][ (last'.op = "saveEdit" /\ last'.ok) =>
            LET old == MessagesOf(conversations, last'.conv)
                new == MessagesOf(conversations', last'.conv)
                p == findIndex(old, last'.msg, "user")
            IN  /\ p > 0
                /\ Len(new) = p + 1
                /\ SubSeq(new, 1, p - 1) = SubSeq(old, 1, p - 1)
                /\ \E draft \in Drafts : new[p] = [old[p] EXCEPT !.content = TrimEnd(draft)]
                /\ IsFreshPlaceholder(new[p + 1], last'.aid)
                /\ \A k \in (p + 1)..Len(old) : old[k].id \notin IdsOf(new)
      ]_vars

\* C2 witness: an edit was saved for the second time on the same message
C2_Witness ==
    /\ last.op = "saveEdit"
    /\ last.ok
    /\ last.again
    /\ Len(MessagesOf(conversations, last.conv)) = 2

\* C3: the request issued by an accepted edit-save ends with the anchor user
\* message carrying the content the store holds for it after the save.
C3_EditSaveSendsSavedText ==
    (last.op = "saveEdit" /\ last.ok) =>
        \A cy \in cycles :
            cy.assistantId = last.aid =>
                \A m \in Held(conversations, last.conv, last.msg) :
                    /\ cy.messagesForModel # <<>>
                    /\ cy.messagesForModel[Len(cy.messagesForModel)].role = "user"
                    /\ cy.messagesForModel[Len(cy.messagesForModel)].content = m.content

\* C4: at most one streamChat cycle is between its start and its finalization.
C4_AtMostOneCycle == Cardinality(cycles) <= 1

\* C5: while the busy flag is set, Send, Resend, Regenerate and Edit-save leave
\* the conversation list and every log unchanged and issue no request.
C5_BusyTurnsAreNoOps ==
    [][ (isStreaming /\ TurnStep) =>
            /\ conversations' = conversations
            /\ CycleIds(cycles') = CycleIds(cycles)
      ]_vars

\* C6: once a cycle's cancellation is signalled, its placeholder keeps the
\* content it has, never becomes error or done, and is stopped when the cycle
\* ends.
C6_CancelEndsStopped ==
    [][ \A cy \in cycles : cy.aborted =>
            \A m \in Held(conversations, cy.convId, cy.assistantId) :
                \A m2 \in Held(conversations', cy.convId, cy.assistantId) :
                    /\ m2.content = m.content
                    /\ m2.status \notin {"error", "done"}
                    /\ cy.assistantId \notin CycleIds(cycles') => m2.status = "stopped"
      ]_vars

\* C7: when a cycle ends on a failure that is not the local abort, its placeholder
\* gets status error and a non-empty error string and keeps its content.
C7_FailureEndsError ==
    [][ \A cy \in cycles :
                (~cy.aborted /\ FailureStep(cy)) =>
                    \A m \in Held(conversations, cy.convId, cy.assistantId) :
                        \E m2 \in Held(conversations', cy.convId, cy.assistantId) :
                            /\ m2.status = "error"
                            /\ m2.error \notin {Undefined, ""}
                            /\ m2.content = m.content
      ]_vars

\* C7 witness: a message that failed after its first fragment
C7_Witness ==
    \E m \in AllMessages(conversations) :
        m.status = "error" /\ m.content = <<"a">> /\ m.error = NetworkError.message

\* C8: the step that ends a cycle gives its placeholder, if still in the log, a
\* terminal status and the latency/token metadata; and the status and metadata
\* of a message change in no other step, so in no second one.
C8_FinalizedExactlyOnce ==
    [][ /\ \A cy \in cycles : cy.assistantId \notin CycleIds(cycles') =>
                \A m \in Held(conversations, cy.convId, cy.assistantId) :
                    \E m2 \in Held(conversations', cy.convId, cy.assistantId) :
                        /\ Terminal(m2.status)
                        /\ m2.meta.latencyMs # Undefined
                        /\ m2.meta.estTokens # <<>>
        /\ \A m \in AllMessages(conversations) : \A m2 \in AllMessages(conversations') :
                (m2.id = m.id /\ (m2.status # m.status \/ m2.meta # m.meta)) =>
                    /\ m.status = "streaming"
                    /\ m.meta.latencyMs = Undefined
                    /\ Terminal(m2.status)
                    /\ \E cy \in cycles :
                            cy.assistantId = m.id /\ cy.assistantId \notin CycleIds(cycles')
      ]_vars

\* C8 witness: a finalized message, done with server-supplied usage
C8_Witness ==
    \E m \in AllMessages(conversations) :
        m.status = "done" /\ m.meta.latencyMs # Undefined /\ m.meta.totalTokens # <<>>

\* C9: a message whose status is done, stopped or error keeps that status, and an
\* assistant message its content, for as long as its id is in the store.
C9_TerminalIsFinal ==
    [][ \A m \in AllMessages(conversations) : Terminal(m.status) =>
            \A m2 \in AllMessages(conversations') : m2.id = m.id =>
                /\ m2.status = m.status
                /\ m.role = "assistant" => m2.content = m.content
      ]_vars

\* C9 witness: a terminal assistant message followed by a later placeholder that
\* has received a fragment
C9_Witness ==
    \E c \in DOMAIN conversations :
        \E k, j \in DOMAIN conversations[c].messages :
            /\ k < j
            /\ conversations[c].messages[k].role = "assistant"
            /\ Terminal(conversations[c].messages[k].status)
            /\ conversations[c].messages[j].status = "streaming"
            /\ conversations[c].messages[j].content # <<>>

\* C10: after an accepted Regenerate on an assistant message, that message's id
\* is absent from the log and the new placeholder's id is none of the ids the
\* conversation held before.
C10_RegenerateReplaces ==
    [][ (last'.op = "regenerate" /\ last'.ok) =>
            LET old == MessagesOf(conversations, last'.conv)
                new == MessagesOf(conversations', last'.conv)
            IN  /\ last'.msg \in IdsOf(old)
                /\ last'.msg \notin IdsOf(new)
                /\ last'.aid \notin IdsOf(old)
                /\ new # <<>>
                /\ IsFreshPlaceholder(new[Len(new)], last'.aid)
      ]_vars

\* C10 witness: a Regenerate was accepted
C10_Witness ==
    /\ last.op = "regenerate"
    /\ last.ok
    /\ last.msg \notin IdsOf(MessagesOf(conversations, last.conv))

\* C11: once a cycle has decoded [DONE], no later step changes the content of
\* its placeholder or the usage it has captured.
C11_DoneStopsProcessing ==
    [][ \A cy \in cycles : cy.sawDone =>
            /\ \A m \in Held(conversations, cy.convId, cy.assistantId) :
                    \A m2 \in Held(conversations', cy.convId, cy.assistantId) :
                        m2.content = m.content
            /\ \A cy2 \in cycles' :
                    cy2.assistantId = cy.assistantId => cy2.finalUsage = cy.finalUsage
      ]_vars

\* C12: when a cycle completes, the content of its placeholder is the fragments
\* the read loop extracts from the same bytes delivered as one chunk.
C12_ChunkingInvariance ==
    last.op = "done" =>
        \A m \in EndedMessage :
            m.content = Flatten(PumpChunk(<<>>, <<>>, last.cycle.received).deltas)

\* C13: when a cycle completes, its placeholder has status done and its content
\* is the non-empty delta contents of the records the read loop decoded, joined
\* in the order they were decoded.
C13_ContentIsJoinedDeltas ==
    last.op = "done" =>
        \A m \in EndedMessage :
            /\ m.status = "done"
            /\ m.content = Flatten([k \in DOMAIN last.cycle.records |-> last.cycle.records[k].delta])

\* C13 witness: two fragments, usage, [DONE] arrived and gave "ab"
C13_Witness ==
    /\ last.op = "done"
    /\ last.cycle.sawDone
    /\ last.cycle.afterDone = <<>>
    /\ Len(last.cycle.records) = 3
    /\ \E m \in EndedMessage : m.status = "done" /\ m.content = <<"a", "b">>

\* C14: when a cycle completes, the token counts of its placeholder are those of
\* the last decoded record that carried usage, and are unset if none did.
C14_UsageLastWriteWins ==
    last.op = "done" =>
        \A m \in EndedMessage :
            /\ m.meta.promptTokens = LastUsage(last.cycle.records)
            /\ m.meta.completionTokens = LastUsage(last.cycle.records)
            /\ m.meta.totalTokens = LastUsage(last.cycle.records)

\* C14 witness: usage u1 was captured and then replaced by u2
C14_Witness ==
    /\ last.op = "done"
    /\ \E m \in EndedMessage : m.meta.totalTokens = <<"u2">>
    /\ \E k \in DOMAIN last.cycle.records : last.cycle.records[k].usage = <<"u1">>

\* C15: in the step that handles a chunk, the lines that are blank, lack the
\* prefix or do not parse change nothing: the placeholder gets the fragments, and
\* the cycle the usage, that the same bytes without those lines give, and the
\* cycle goes on reading with the placeholder still streaming.
C15_SkippedLinesChangeNothing ==
    [][ \A cy \in cycles : \A cy2 \in cycles' :
            (cy2.assistantId = cy.assistantId /\ cy2.received # cy.received) =>
                LET clean == PumpChunk(<<>>, cy.finalUsage, DropSkipped(cy.buffer \o Head(cy.body)))
                IN  /\ cy2.pc = "read"
                    /\ cy2.finalUsage = clean.usage
                    /\ \A m \in Held(conversations, cy.convId, cy.assistantId) :
                         \E m2 \in Held(conversations', cy.convId, cy.assistantId) :
                            /\ m2.content = m.content \o Flatten(clean.deltas)
                            /\ m2.status = "streaming"
      ]_vars

\* C15 witness: a body with all three kinds of skipped line ended done with the
\* fragments of its valid records
C15_Witness ==
    /\ last.op = "done"
    /\ \E k \in DOMAIN last.cycle.received : last.cycle.received[k] = "junk"
    /\ \E m \in EndedMessage : m.status = "done" /\ m.content = <<"a", "b">>

\* C16: when the transport ends the stream while the buffer holds an unterminated
\* line, the placeholder keeps its content, gets the usage captured so far and
\* status done.
C16_PartialLineDiscarded ==
    [][ (last'.op = "done" /\ last'.cycle.buffer # <<>>) =>
            \A m \in Held(conversations, last'.conv, last'.aid) :
                \E m2 \in Held(conversations', last'.conv, last'.aid) :
                    /\ m2.content = m.content
                    /\ m2.status = "done"
                    /\ m2.error = Undefined
                    /\ m2.meta.totalTokens = last'.cycle.finalUsage
      ]_vars

\* C16 witness: the stream ended with an unterminated record line in the buffer
C16_Witness ==
    /\ last.op = "done"
    /\ last.cycle.buffer = <<DataPrefix, "{b}">>
    /\ \E m \in EndedMessage : m.status = "done" /\ m.content = <<"a">>

\* C17: a streaming message's content only grows at its end, and a step of its
\* cycle appends exactly the fragments of the records decoded in that step, in
\* the order they were decoded.
C17_AppendsInArrivalOrder ==
    [][ /\ \A m \in AllMessages(conversations) : \A m2 \in AllMessages(conversations') :
                (m2.id = m.id /\ m.status = "streaming") => IsPrefix(m.content, m2.content)
        /\ \A cy \in cycles : \A cy2 \in cycles' : cy2.assistantId = cy.assistantId =>
                \A m \in Held(conversations, cy.convId, cy.assistantId) :
                    \A m2 \in Held(conversations', cy.convId, cy.assistantId) :
                        LET new == SubSeq(cy2.records, Len(cy.records) + 1, Len(cy2.records))
                        IN  m2.content = m.content \o Flatten([k \in DOMAIN new |-> new[k].delta])
      ]_vars

\* C17 witness: a streaming placeholder that has received two fragments in order
C17_Witness ==
    \E cy \in cycles : \E m \in Held(conversations, cy.convId, cy.assistantId) :
        m.status = "streaming" /\ m.content = <<"a", "b">> /\ Len(cy.records) >= 2

\* C18: a step of a cycle (a chunk, the end, a failure) leaves the list of
\* conversations, every log's length and order, and every message other than the
\* cycle's placeholder as they were.
C18_OnlyThePlaceholderChanges ==
    [][ \A cy \in cycles : OrchestratorStep(cy) =>
            /\ Len(conversations') = Len(conversations)
            /\ \A k \in DOMAIN conversations :
                    SameButFor(conversations[k], conversations'[k],
                               IF conversations[k].id = cy.convId THEN cy.assistantId ELSE Null)
      ]_vars

\* C18 witness: a cycle completed in a conversation that holds an earlier turn,
\* while another conversation was the active one
C18_Witness ==
    /\ last.op = "done"
    /\ activeId # last.conv
    /\ Len(MessagesOf(conversations, last.conv)) >= 4
    /\ \E m \in EndedMessage : m.content # <<>>

\* C19: while the body of a non-success response is awaited the placeholder is
\* streaming and empty; it stays so until the cycle ends, and then it is in
\* error, empty, with a non-empty error string.
C19_NoBodyFailsAtOnce ==
    [][ \A cy \in cycles : cy.pc = "errbody" =>
            \A m \in Held(conversations, cy.convId, cy.assistantId) :
                /\ m.status = "streaming" /\ m.content = <<>>
                /\ \A m2 \in Held(conversations', cy.convId, cy.assistantId) :
                        /\ m2.content = <<>>
                        /\ IF cy.assistantId \in CycleIds(cycles')
                           THEN m2.status = "streaming"
                           ELSE m2.status = "error" /\ m2.error \notin {Undefined, ""}
      ]_vars

\* C19 witness: a placeholder that failed on a non-success response
C19_Witness ==
    \E m \in AllMessages(conversations) :
        m.status = "error" /\ m.content = <<>> /\ m.error = HttpError("Unknown server_id").message

\* C20: the step in which a cycle ends leaves the cancellation handle cleared and
\* the busy flag false.
C20_EndClearsBusy ==
    [][ (\E cy \in cycles : cy.assistantId \notin CycleIds(cycles')) =>
            abortRef' = Null /\ isStreaming' = FALSE
      ]_vars

\* C20 witness: a Send was accepted after a cycle had ended by cancellation
C20_Witness ==
    /\ last.op = "send"
    /\ last.ok
    /\ \E m \in Held(conversations, last.conv, uid(2)) : m.status = "stopped"

\* C21: a Send whose text is blank after trimming, with no pending image, leaves
\* the conversation list, every log and the active conversation id unchanged and
\* issues no request, also when no conversation is active.
C21_BlankSendIsNoOp ==
    [][ (\E input \in Inputs : Trim(input) = <<>> /\ appendUserAndRun(input, FALSE)) =>
            /\ conversations' = conversations
            /\ activeId' = activeId
            /\ CycleIds(cycles') = CycleIds(cycles)
      ]_vars

\* C22: an accepted Send appends to the end of the active conversation's log, in
\* one store update, exactly the user message (done) followed by the assistant
\* placeholder (streaming, empty); the earlier messages are unchanged, and no
\* step makes a log longer in any other way.
C22_SendAppendsTurn ==
    [][ \A k \in DOMAIN conversations' :
            LET id == conversations'[k].id
                old == MessagesOf(conversations, id)
                new == conversations'[k].messages
                n == Len(old)
            IN  /\ (last'.op = "send" /\ last'.ok /\ last'.conv = id) => Len(new) = n + 2
                /\ Len(new) > n =>
                        /\ last'.op = "send" /\ last'.ok /\ last'.conv = id
                        /\ Len(new) = n + 2
                        /\ SubSeq(new, 1, n) = old
                        /\ new[n + 1].id = last'.msg
                        /\ new[n + 1].role = "user"
                        /\ new[n + 1].status = "done"
                        /\ IsFreshPlaceholder(new[n + 2], last'.aid)
      ]_vars

\* C22 witness: a Send was accepted in a conversation that already held a turn
C22_Witness ==
    /\ last.op = "send"
    /\ last.ok
    /\ Len(MessagesOf(conversations, last.conv)) = 4
    /\ MessagesOf(conversations, last.conv)[3].id = last.msg

\* C25: a Resend whose target id is not in the active conversation's log, or
\* names a message that is not a user message, leaves the store unchanged,
\* creates no placeholder and issues no request.
C25_ResendNeedsUserTarget ==
    [][ \A m \in ResendIds :
            (Resend(m) /\ findIndex(MessagesOf(conversations, activeId), m, "user") = 0) =>
                /\ conversations' = conversations
                /\ nextId' = nextId
                /\ cycles' = cycles
                /\ isStreaming' = isStreaming
      ]_vars

\* C25 witness: nothing is in flight, the log holds an assistant message and an
\* earlier one is gone from it; a Resend clicked on either leaves exactly this
\* state
C25_Witness ==
    /\ ~isStreaming
    /\ last = Other
    /\ \E m \in ActiveMessageIds : findIndex(MessagesOf(conversations, activeId), m, "user") = 0
    /\ \E m \in ResendIds : m \notin ActiveMessageIds

ExpectedList(conv, p, roles) ==
    LET sys == IF \E k \in DOMAIN conv.systemPrompt : ~IsSpace(conv.systemPrompt[k])
               THEN <<[role |-> "system", content |-> conv.systemPrompt, image |-> FALSE]>>
               ELSE <<>>
        Entry(m) == [role |-> m.role, content |-> m.content, image |-> FALSE]
        Kept(m) == m.role \in roles
    IN  sys \o [k \in 1..Len(SelectSeq(SubSeq(conv.messages, 1, p), Kept)) |->
                    Entry(SelectSeq(SubSeq(conv.messages, 1, p), Kept)[k])]

\* the request of the turn accepted in the last step, compared with the list
\* expected of the roles given
TurnSends(roles) ==
    LET k == FindConv(conversations', last'.conv)
        conv == conversations'[k]
        p == findIndex(conv.messages, last'.msg, "user")
    IN  /\ k > 0
        /\ p = Len(conv.messages) - 1
        /\ IsFreshPlaceholder(conv.messages[p + 1], last'.aid)
        /\ \E cy \in cycles' :
                /\ cy.assistantId = last'.aid
                /\ cy.messagesForModel = ExpectedList(conv, p, roles)

\* C23 as claimed: the list built by Send and by Resend is the system prompt
\* iff it is not blank, then every message of the log up to and including the
\* new or anchoring user message, and nothing after it.
C23_ListIsLogPrefix ==
    [][ (last'.op \in {"send", "resend"} /\ last'.ok) =>
            TurnSends({"user", "assistant", "system"})
      ]_vars

\* C23 amended: the list built by Send and by Resend is the system prompt iff it
\* is not blank, then every message of the log that is not a system message, in
\* log order, up to and including the new or anchoring user message, and nothing
\* after it; the placeholder of the new turn is not part of it.
C23_ListIsPrefixSansSystem ==
    [][ (last'.op \in {"send", "resend"} /\ last'.ok) =>
            TurnSends({"user", "assistant"})
      ]_vars

\* C23 witness: a Resend was accepted in a conversation with a blank system
\* prompt whose log has a system message and two more before the anchor's reply
C23_Witness ==
    /\ last.op = "resend"
    /\ last.ok
    /\ \E k \in DOMAIN conversations :
            /\ conversations[k].id = last.conv
            /\ Trim(conversations[k].systemPrompt) = <<>>
            /\ Len(conversations[k].messages) = 4
            /\ conversations[k].messages[2].role = "system"
            /\ conversations[k].messages[3].id = last.msg

\* C24: Regenerate on the assistant message at position k anchors at the
\* greatest j < k whose message is a user message and leaves the messages up to
\* j followed by one new placeholder; if no user message precedes k, it leaves
\* the store unchanged and issues no request.
C24_RegenerateAnchorsAtNearestUser ==
    [][ /\ (last'.op = "regenerate" /\ last'.ok) =>
                LET old == MessagesOf(conversations, last'.conv)
                    new == MessagesOf(conversations', last'.conv)
                    k == findIndex(old, last'.msg, "assistant")
                IN  /\ k > 0
                    /\ \E j \in 1..(k - 1) :
                            /\ old[j].role = "user"
                            /\ \A i \in (j + 1)..(k - 1) : old[i].role # "user"
                            /\ Len(new) = j + 1
                            /\ SubSeq(new, 1, j) = SubSeq(old, 1, j)
                            /\ IsFreshPlaceholder(new[j + 1], last'.aid)
                            /\ \E cy \in cycles' : cy.assistantId = last'.aid
        /\ \A m \in ActiveMessageIds :
                LET old == MessagesOf(conversations, activeId)
                    k == findIndex(old, m, "assistant")
                IN  (regenerateFromAssistant(m) /\ k > 0
                        /\ \A j \in 1..(k - 1) : old[j].role # "user") =>
                        /\ conversations' = conversations
                        /\ cycles' = cycles
                        /\ nextId' = nextId
                        /\ isStreaming' = isStreaming
      ]_vars

\* C24 witness: Regenerate was accepted on the last message of the imported log,
\* which a system message separates from its user message and whose first
\* message is an assistant message no user message precedes
C24_Witness ==
    /\ last.op = "regenerate"
    /\ last.ok
    /\ last.msg = "a2"
    /\ LET log == MessagesOf(conversations, last.conv)
       IN  /\ Len(log) = 4
           /\ log[1].role = "assistant"
           /\ log[3].role = "user"

\* the least n with 4n >= len
CeilQuarter(len) == CHOOSE n \in 0..len : 4 * n >= len /\ 4 * (n - 1) < len

\* the assistant messages a cycle has finalized
Finalized == {m \in AllMessages(conversations) : m.role = "assistant" /\ Terminal(m.status)}

\* C27 as claimed: a message finalized without usage from the server records
\* the estimate ceil(L/4), L being the length of its content, for every L >= 0.
C27_EstimateIsCeil ==
    \A m \in Finalized :
        m.meta.totalTokens = <<>> => m.meta.estTokens = <<CeilQuarter(Len(m.content))>>

\* C27 amended: a finalized message records the estimate max(1, ceil(L/4)), L
\* being the length of its content: ceil(L/4) for L >= 1, and 1 for L = 0.
C27_EstimateIsCeilAtLeastOne ==
    \A m \in Finalized :
        LET n == CeilQuarter(Len(m.content))
        IN  m.meta.estTokens = <<IF n < 1 THEN 1 ELSE n>>

\* C27 witness: a message of five characters was finalized without usage, with
\* the estimate 2
C27_Witness ==
    \E m \in Finalized :
        /\ Len(m.content) = 5
        /\ m.meta.totalTokens = <<>>
        /\ m.meta.estTokens = <<2>>
        /\ m.status = "done"

\* the words of a text joined by single spaces
Squeezed(text) ==
    LET F[k \in 0..Len(text)] ==
            IF k = 0 THEN <<>>
            ELSE IF ~IsSpace(text[k]) THEN Append(F[k - 1], text[k])
            ELSE IF F[k - 1] # <<>> /\ ~IsSpace(text[k - 1])
                    /\ \E j \in (k + 1)..Len(text) : ~IsSpace(text[j])
                 THEN Append(F[k - 1], " ")
            ELSE F[k - 1]
    IN  F[Len(text)]

\* the title a text gives: its words, cut to 28 characters and an ellipsis when
\* they are more
DerivedTitle(text) ==
    IF Len(Squeezed(text)) > TitleCut
    THEN SubSeq(Squeezed(text), 1, TitleCut) \o <<Ellipsis>>
    ELSE Squeezed(text)

\* the conversations the app created itself
AppMade == {c \in Conversations(conversations) : c.id \in {uid(0 - k) : k \in 0..(nextConv - 1)}}

NonBlankUser(m) == m.role = "user" /\ \E k \in DOMAIN m.content : ~IsSpace(m.content[k])

SameConversations(old, new) ==
    /\ Len(new) = Len(old)
    /\ \A k \in DOMAIN old :
            /\ new[k].id = old[k].id
            /\ Len(new[k].messages) = Len(old[k].messages)
            /\ \A j \in DOMAIN old[k].messages :
                    /\ new[k].messages[j].id = old[k].messages[j].id
                    /\ new[k].messages[j].role = old[k].messages[j].role
                    /\ new[k].messages[j].content = old[k].messages[j].content
                    /\ new[k].messages[j].status = old[k].messages[j].status

\* C29: a document written by exportAll, imported while the store is empty,
\* yields the conversations it was written from, in the same order, each with
\* the same id and the same messages in the same order, with the same content
\* and status.
C29_ExportImportRoundTrip ==
    [][ \A i \in DOMAIN importing, e \in DOMAIN exported :
            (/\ ImportSettles(i)
             /\ importing[i].doc = exported[e].doc
             /\ importing[i].existingIds = {}
             /\ conversations = <<>>) =>
                SameConversations(exported[e].store, conversations')
      ]_vars

\* C29 witness: an import into the empty store has brought back a conversation
\* whose turn had failed or was still streaming when it was exported
C29_Witness ==
    /\ last.op = "import"
    /\ last.import.existingIds = {}
    /\ Len(conversations) = Len(Imported(last.import.doc))
    /\ last.import.doc \in Files
    /\ \E c \in Conversations(conversations) :
            Len(c.messages) = 2 /\ c.messages[2].status \in {"error", "streaming"}

\* what the claim asks of the import that ran in this step: every conversation
\* of the file whose id is in the store gets an id that is not, every other one
\* keeps its id, every message keeps the id it has in the file, and the
\* conversations of the store follow unchanged
ImportKeepsIds(i) ==
    LET imported == Imported(importing[i].doc)
        n == Len(imported)
        inStore == {conversations[k].id : k \in DOMAIN conversations}
    IN  /\ Len(conversations') = n + Len(conversations)
        /\ SubSeq(conversations', n + 1, n + Len(conversations)) = conversations
        /\ \A k \in 1..n :
                LET c == conversations'[k]
                    msgs == IF imported[k].messages = <<>> THEN <<>> ELSE imported[k].messages[1]
                IN  /\ IF Get(imported[k].id) \in inStore
                       THEN c.id \notin inStore
                       ELSE c.id = Get(imported[k].id)
                    /\ Len(c.messages) = Len(msgs)
                    /\ \A j \in DOMAIN msgs :
                            msgs[j].id # <<>> => c.messages[j].id = msgs[j].id[1]

\* C30: an import gives every imported conversation whose id is the id of a
\* conversation in the store a fresh id different from all of them, keeps the
\* id of every other imported conversation, leaves the message ids as they are
\* in the file, and leaves the conversations of the store unchanged.
C30_ImportAvoidsCollisions ==
    [][ \A i \in DOMAIN importing :
            (ImportSettles(i) /\ Imported(importing[i].doc) # <<>>) => ImportKeepsIds(i)
      ]_vars

-----------------------------------------------------------------------------
(* Finalization against a newer cycle *)

\* the cycle the cancellation handle points at
CurrentCycle(cys, ref) == {cy \in cys : cy.assistantId = ref}

\* C37: when a cycle ends while the busy flag and the cancellation handle belong
\* to another, newer cycle, the flag stays set and the handle keeps pointing at
\* the newer cycle.
C37_LateFinalizationSparesNewCycle ==
    [][ \A old \in cycles : \A cur \in CurrentCycle(cycles, abortRef) :
            ( /\ old.assistantId # cur.assistantId
              /\ isStreaming
              /\ old.assistantId \notin CycleIds(cycles')
              /\ cur.assistantId \in CycleIds(cycles') )
            => isStreaming' /\ abortRef' = cur.assistantId
      ]_vars

-----------------------------------------------------------------------------
(* Streaming status without a stream *)

\* C36: when no cycle is in flight, no message of the store has status streaming.
C36_NoStreamingWithoutStream ==
    cycles = {} => \A m \in AllMessages(conversations) : m.status # "streaming"

-----------------------------------------------------------------------------
(* The token limit *)

\* C34: every conversation's maxTokens is an integer within [16, 4096].
C34_MaxTokensIsIntegerInRange ==
    \A k \in DOMAIN conversations :
        /\ IsInteger(conversations[k].maxTokens)
        /\ conversations[k].maxTokens >= Num(MinTokens)
        /\ conversations[k].maxTokens <= Num(MaxTokens)

-----------------------------------------------------------------------------
(* Conversation ids *)

\* C38: the ids of the conversations of the store are pairwise distinct.
C38_ConversationIdsDistinct ==
    \A j, k \in DOMAIN conversations : conversations[j].id = conversations[k].id => j = k

\* C39: while a cycle is in flight and a conversation with its conversation id
\* is in the store, the cycle's placeholder is the last message of that
\* conversation's log.
C39_PlaceholderStaysLast ==
    \A cy \in cycles :
        LET log == MessagesOf(conversations, cy.convId)
        IN  FindConv(conversations, cy.convId) # 0 =>
                /\ log # <<>>
                /\ log[Len(log)].id = cy.assistantId

-----------------------------------------------------------------------------
(* Progress *)

\* the ids a placeholder can have
PlaceholderIds == {uid(k) : k \in 1..(MaxIds + 1)}

\* the cycle of this placeholder is over, the busy flag is clear and the
\* placeholder, where the store still has it, is in a terminal status
EndedFor(id) ==
    /\ id \notin CycleIds(cycles)
    /\ ~isStreaming
    /\ \A m \in AllMessages(conversations) : m.id = id => Terminal(m.status)

\* C35: when the pending awaits of a cycle settle at some time, the cycle ends
\* with the busy flag clear and its placeholder terminal; and nothing but the
\* settling of its own await ends a cycle or takes its placeholder out of
\* status streaming, so a cycle whose await never settles stays in flight.
C35_CycleEndsWhenTransportSettles ==
    /\ \A id \in PlaceholderIds : (id \in CycleIds(cycles)) ~> EndedFor(id)
    /\ [][ \A cy \in cycles : ~Settles(cy) =>
                /\ cy.assistantId \in CycleIds(cycles')
                /\ \A m \in Held(conversations', cy.convId, cy.assistantId) :
                        m.status = "streaming"
         ]_vars

\* C35 witness: a cycle has ended after Stop and left its placeholder stopped
C35_Witness ==
    /\ cycles = {}
    /\ ~isStreaming
    /\ \E m \in AllMessages(conversations) : m.role = "assistant" /\ m.status = "stopped"

-----------------------------------------------------------------------------
(* Backend resolution *)

\* the registry as a request sees it
Registry == getServers(env)
RegisteredIds == {Registry[k].id : k \in DOMAIN Registry}
Registered(id) == Registry[CHOOSE k \in DOMAIN Registry : Registry[k].id = id]

\* the request served last: its server id, whether it carries an override, and
\* whether the route answered without asking the upstream
ServedId == Param(served.req.server_id)
ServedOverride == served.req.base_url # <<>> /\ served.req.base_url[1] # <<>>
ServedRejected == served.upstream = <<>> /\ served.status = 400

\* the base URL an upstream request went to: its URL without the endpoint
ServedBase == SubSeq(served.upstream[1].url, 1, Len(served.upstream[1].url) - 1)

\* C33: a request with a server id that is not registered, or with an override
\* that is not a valid URL, is rejected without an upstream request; any other
\* request goes to the base URL of the registered server when it names one,
\* else to its override when it has one, else to the environment's default.
C33_ResolutionFollowsPrecedence ==
    served.route # "none" =>
        IF ServedId # <<>> /\ ServedId \notin RegisteredIds
        THEN ServedRejected /\ served.error = "Unknown server_id"
        ELSE IF ServedOverride /\ normalizeBaseUrl(served.req.base_url) = Null
        THEN ServedRejected /\ served.error = "Invalid base_url"
        ELSE /\ served.upstream # <<>>
             /\ ServedBase = StripSlashes(ensureV1(
                    IF ServedId # <<>> THEN Registered(ServedId).baseUrl
                    ELSE IF ServedOverride THEN normalizeBaseUrl(served.req.base_url)
                    ELSE getEnv(env, "VLLM_BASE_URL",
                                IF served.route = "chat" THEN DefaultChatBaseUrl
                                ELSE DefaultModelsBaseUrl)))

\* C33 witness: a chat request with a registered server id and a valid override
\* went to the server's base URL
C33_Witness ==
    /\ served.route = "chat"
    /\ ServedId = <<"a">>
    /\ ServedOverride
    /\ served.upstream # <<>>
    /\ ServedBase = <<"http://", "a", "/v1">>

\* C31: when the chat route has served the request of a cycle that names a
\* server id that is not registered, it has answered 400 without an upstream
\* request, the cycle's placeholder has no content, and once the cycle is over
\* the placeholder is in status error with the text of the rejection.
C31_UnknownServerIsRejected ==
    ( /\ served.route = "chat"
      /\ served.for # Null
      /\ ServedId # <<>>
      /\ ServedId \notin RegisteredIds )
    => /\ ServedRejected
       /\ served.error = "Unknown server_id"
       /\ \A m \in AllMessages(conversations) : m.id = served.for =>
            /\ m.content = <<>>
            /\ IF served.for \in CycleIds(cycles) THEN m.status = "streaming"
               ELSE /\ m.status = "error"
                    /\ m.error = HttpError("Unknown server_id").message

\* C31 witness: the cycle of a conversation that names the server zz, which is
\* not registered, is over and has left its placeholder in error
C31_Witness ==
    /\ served.route = "chat"
    /\ ServedId = <<"zz">>
    /\ ServedRejected
    /\ served.for \notin CycleIds(cycles)
    /\ \E m \in AllMessages(conversations) : m.id = served.for /\ m.status = "error"

\* the model ids listed for a registered server
ModelsOf(id) == {Registered(id).models[k].id : k \in DOMAIN Registered(id).models}

\* C32: a chat request that names a registered server with a model list and a
\* model that is not on that list is rejected without an upstream request.
C32_UnknownModelIsRejected ==
    ( /\ served.route = "chat"
      /\ ServedId \in RegisteredIds
      /\ ModelsOf(ServedId) # {}
      /\ Param(served.req.model) # <<>>
      /\ Param(served.req.model) \notin ModelsOf(ServedId) )
    => served.upstream = <<>> /\ served.status >= 400

\* the credentials of the server: the environment's and the registry's
Credentials ==
    ({Trim(env.VLLM_API_KEY)} \cup
     {Registry[k].apiKey[1] : k \in {j \in DOMAIN Registry : Registry[j].apiKey # <<>>}})
    \ {<<>>}

\* C40: an upstream request that goes to the base URL the request itself
\* supplied carries none of the server's credentials.
C40_CredentialsStayHome ==
    ( /\ served.upstream # <<>>
      /\ ServedId = <<>>
      /\ ServedOverride )
    => served.upstream[1].key \notin Credentials

====
